---- MODULE Spec2Model ----
(***************************************************************************)
(* Model of the workflow orchestration of eodms-orderdownload.py: the five *)
(* flows of Eodms_OrderDownload (search_orderDownload, order_csv,          *)
(* download_aoi, download_only, search_only) run under main()'s exception  *)
(* handlers, with the external EODMSRAPI capabilities (search, order,      *)
(* get_ordersByRecords, download) and the operator (input) as the          *)
(* environment.                                                            *)
(***************************************************************************)
EXTENDS Integers, Sequences, FiniteSets, TLC

(***************************************************************************)
(* Bounds of the model.                                                    *)
(***************************************************************************)
\* largest number of records one search call returns
MaxPerSearch == 3
\* largest number of collections of an AOI query
MaxColls == 2
\* largest total-images cap written in the maximum text
MaxImgCap == 2
\* largest items-per-order cap written in the maximum text
MaxItemCap == 2
\* largest number of rows of an input CSV file
MaxCsvRows == 2
\* largest number of order calls of a run that get a response without items
MaxFailedOrders == 1
\* largest number of filter entries handed to _parse_filters
MaxFilters == 2
\* largest number of comma-separated ranges of a date text
MaxRanges == 2

(***************************************************************************)
(* Python values: None, str (a sequence of characters) and int.            *)
(***************************************************************************)
PyNone == [t |-> "none"]
PyStr(s) == [t |-> "str", s |-> s]
PyInt(n) == [t |-> "int", n |-> n]

\* truth value of a Python object in an if statement
Truthy(v) ==
  CASE v.t = "none" -> FALSE
    [] v.t = "str" -> v.s # <<>>
    [] v.t = "int" -> v.n # 0

DigitChars == <<"0", "1", "2", "3", "4", "5", "6", "7", "8", "9">>

DigitOf(c) == CHOOSE d \in 0..9 : DigitChars[d + 1] = c

\* int(s) for a non-empty text of decimal digits
RECURSIVE StrToInt(_)
StrToInt(s) ==
  IF Len(s) = 1 THEN DigitOf(s[1])
  ELSE 10 * StrToInt(SubSeq(s, 1, Len(s) - 1)) + DigitOf(s[Len(s)])

\* str(n) for n >= 0
RECURSIVE IntToStr(_)
IntToStr(n) ==
  IF n < 10 THEN <<DigitChars[n + 1]>>
  ELSE IntToStr(n \div 10) \o <<DigitChars[(n % 10) + 1]>>

\* s.find(ch): 0-based index of the first occurrence, -1 when absent
Find(s, ch) ==
  IF \E i \in 1..Len(s) : s[i] = ch
  THEN (CHOOSE i \in 1..Len(s) : s[i] = ch /\ \A j \in 1..(i - 1) : s[j] # ch) - 1
  ELSE -1

LowerChar(c) ==
  CASE c = "Y" -> "y"
    [] c = "N" -> "n"
    [] c = "E" -> "e"
    [] c = "S" -> "s"
    [] c = "O" -> "o"
    [] OTHER -> c

\* s.lower()
Lower(s) == [i \in 1..Len(s) |-> LowerChar(s[i])]

(***************************************************************************)
(* parse_max: the maximum text "<images>[:<items>]" to (max_images,        *)
(* max_items).                                                             *)
(***************************************************************************)
parse_max(maximum) ==
  LET colon == IF maximum.t = "none" THEN -1 ELSE Find(maximum.s, ":")
      split_images ==
        IF maximum.t = "none" THEN PyNone
        ELSE IF colon > -1 THEN PyStr(SubSeq(maximum.s, 1, colon))
        ELSE maximum
      split_items ==
        IF maximum.t = "none" THEN PyNone
        ELSE IF colon > -1
             THEN PyStr(SubSeq(maximum.s, colon + 2, Len(maximum.s)))
        ELSE PyNone
      max_images == IF Truthy(split_images) THEN PyInt(StrToInt(split_images.s))
                    ELSE split_images
      max_items == IF Truthy(split_items) THEN PyInt(StrToInt(split_items.s))
                   ELSE split_items
  IN <<max_images, max_items>>

\* the maximum texts a run is started with
MaxTexts ==
  LET imgs == {<<>>} \cup {IntToStr(n) : n \in 0..MaxImgCap}
      items == {<<>>} \cup {IntToStr(n) : n \in 0..MaxItemCap}
  IN {PyNone} \cup {PyStr(i) : i \in imgs}
       \cup {PyStr(i \o <<":">> \o k) : i \in imgs, k \in items}

(***************************************************************************)
(* Collections, records and the record set (utils.image.ImageList) and     *)
(* order set (utils.image.OrderList).                                      *)
(***************************************************************************)
\* collection ids, in the order a run lists them
CollOrder == <<"RCMImageProducts", "NAPL", "Radarsat1">>

\* get_fullCollId: the key of the collection table that contains coll_id
get_fullCollId(coll_id) ==
  IF \E i \in 1..Len(CollOrder) : CollOrder[i] = coll_id
  THEN CollOrder[CHOOSE i \in 1..Len(CollOrder) : CollOrder[i] = coll_id]
  ELSE "None"

\* the raw records ids[1..] of collection c, as the RAPI returns them
RawRecs(c, n) == [i \in 1..n |-> [coll |-> c, id |-> i]]

\* remove repeated elements of a sequence, keeping first occurrences
RECURSIVE Dedup(_)
Dedup(s) ==
  IF s = <<>> THEN <<>>
  ELSE LET init == Dedup(SubSeq(s, 1, Len(s) - 1))
           last == s[Len(s)]
       IN IF \E i \in 1..Len(init) : init[i] = last THEN init
          ELSE Append(init, last)

\* ImageList.ingest_results: one image per record id, in order of arrival
ingest_results(raw) ==
  LET d == Dedup(raw)
  IN [i \in 1..Len(d) |-> [coll |-> d[i].coll, id |-> d[i].id, status |-> ""]]

\* ImageList.get_raw: the identifier and collection of every image
get_raw(imgs) == [i \in 1..Len(imgs) |-> [coll |-> imgs[i].coll, id |-> imgs[i].id]]

\* ImageList.count
count(imgs) == Len(imgs)

\* the first n elements of a sequence
Take(s, n) == SubSeq(s, 1, IF n < Len(s) THEN n ELSE Len(s))

\* the elements of s that satisfy the membership in keep, in order
RECURSIVE SelectIdx(_, _, _)
SelectIdx(s, keep, i) ==
  IF i > Len(s) THEN <<>>
  ELSE (IF i \in keep THEN <<s[i]>> ELSE <<>>) \o SelectIdx(s, keep, i + 1)

\* ImageList.trim(max_images): the first max_images images overall
trim(imgs, n) == Take(imgs, n)

\* ImageList.trim(max_images, collections): the first max_images images of
\* each listed collection, in the original relative order
trim_colls(imgs, n, colls) ==
  LET rank(i) == Cardinality({j \in 1..i : imgs[j].coll = imgs[i].coll})
      listed(i) == \E k \in 1..Len(colls) : get_fullCollId(colls[k]) = imgs[i].coll
      keep == {i \in 1..Len(imgs) : listed(i) /\ rank(i) <= n}
  IN SelectIdx(imgs, keep, 1)

\* OrderList.count_items
count_items(ords) == Len(ords)

\* ImageList.update_downloads: the status of every downloaded order item is
\* written to its image; images without an outcome keep theirs
update_downloads(imgs, items, status) ==
  [i \in 1..Len(imgs) |->
     IF \E k \in 1..Len(items) :
          items[k].coll = imgs[i].coll /\ items[k].id = imgs[i].id
     THEN [imgs[i] EXCEPT !.status = status]
     ELSE imgs[i]]

(***************************************************************************)
(* Decisions of the flows.                                                 *)
(***************************************************************************)
\* search_orderDownload: "if max_images is None or max_images == ''"
NoMaxImages(max_images) ==
  max_images.t = "none" \/ (max_images.t = "str" /\ max_images.s = <<>>)

\* AskProceed without the test of silent mode
AskProceed_IgnoreSilent(max_images, silent) == NoMaxImages(max_images)

\* search_orderDownload: the operator is asked "Proceed with ordering?"
AskProceed(max_images, silent) == NoMaxImages(max_images) /\ ~silent

\* search_orderDownload: "answer.lower().find('n') > -1"
AnswerDeclines(answer) == Find(Lower(answer), "n") > -1

\* AnswerOrders as "the answer holds no 'n'"
AnswerOrders_UnlessNo(answer) == Find(Lower(answer), "n") = -1

\* retrieve_orders: "answer.lower().find('y') > -1"
AnswerOrders(answer) == Find(Lower(answer), "y") > -1

\* search_orderDownload: "if max_items is None or max_items == 0"
SingleOrder(max_items) ==
  max_items.t = "none" \/ (max_items.t = "int" /\ max_items.n = 0)

\* NextChunk with the end of a full slice not moved by idx
NextChunk_NoOffset(json_res, idx, max_items) ==
  IF Len(json_res) < idx + max_items
  THEN SubSeq(json_res, idx + 1, Len(json_res))
  ELSE SubSeq(json_res, idx + 1, max_items)

\* search_orderDownload: the slice of json_res ordered at index idx
NextChunk(json_res, idx, max_items) ==
  IF Len(json_res) < idx + max_items
  THEN SubSeq(json_res, idx + 1, Len(json_res))
  ELSE SubSeq(json_res, idx + 1, max_items + idx)

\* RangeDone with the range one index short
RangeDone_Early(json_res, idx) == idx + 1 >= Len(json_res)

\* search_orderDownload: "for idx in range(0, len(json_res), max_items)" has
\* no further value of idx
RangeDone(json_res, idx) == idx >= Len(json_res)

\* NoResults with a test that no count satisfies
NoResults_Never(imgs) == count(imgs) < 0

\* "if query_imgs.count() == 0" after query_entries
NoResults(imgs) == count(imgs) = 0

\* "if orders.count_items() == 0" after the ordering stage
NoOrders(ords) == count_items(ords) = 0

\* the answers an operator types at a (y/n) question
Answers == {<<"y">>, <<"n">>, <<"Y", "e", "s">>, <<"N", "o">>, <<>>}

\* the statuses the download capability reports for an order item
AvailableStatus == "AVAILABLE_FOR_DOWNLOAD"
DownloadStatuses == {AvailableStatus, "FAILED"}

(***************************************************************************)
(* State.                                                                  *)
(***************************************************************************)
VARIABLES
  process,      \* params['process']: the flow that main() runs
  silent,       \* Eodms_OrderDownload.silent
  maximum,      \* params['maximum']
  collections,  \* params['collections']
  input_ok,     \* params['input'] passes the flow's check of the input file
  csv_rows,     \* the rows of the input CSV file
  pc,           \* position of the run in its flow
  fn_str,       \* TRUE once self.fn_str is assigned
  max_images,   \* result of parse_max
  max_items,    \* result of parse_max
  coll_i,       \* query_entries: index of the next collection
  all_res,      \* raw records accumulated by query_entries / _get_eodmsRes
  built,        \* TRUE once the ImageList query_imgs exists
  query_imgs,   \* the images of the ImageList the flow annotates
  cur_res,      \* TRUE once self.cur_res refers to query_imgs (None before)
  json_res,     \* query_imgs.get_raw() taken for ordering
  idx,          \* index of the order loop
  order_res,    \* order response that was received and is not ingested yet
  orders,       \* the order items of the OrderList
  answer,       \* last answer typed by the operator
  calls,        \* external calls, prompts and exports, in order
  exit_status,  \* process exit status, -1 while running
  exit_by,      \* what ended the process
  chunk_idx,    \* _get_eodmsRes: idx of the chunk of CSV rows
  row_i,        \* _get_eodmsRes: number of the next row of the chunk
  seq_ids,      \* _get_eodmsRes: sequence ids collected for the chunk
  res,         \* _get_eodmsRes: res, the result of the last search
  fn,           \* the parsing method under study, "none" in a run of a flow
  self_coll_id, \* self.coll_id: the collection of the filter entries
  filters,      \* the filter entries handed to _parse_filters
  in_dates,     \* the date text handed to _parse_dates
  fields,       \* the list of fields handed to sort_fields
  priority,     \* the priority given on the command line, handed to ask_priority
  in_val,       \* get_input: what the operator enters when asked
  filt_items,   \* the filter text handed to validate_filters
  result        \* what the parsing method returned or raised

inputs == <<process, silent, maximum, collections, input_ok, csv_rows>>

\* the state of a call of a parsing method
parsing == <<filt_items, in_val, priority, fields, fn, self_coll_id, filters, in_dates,
             result>>

vars == <<process, silent, maximum, collections, input_ok, csv_rows, pc,
          fn_str, max_images, max_items, coll_i, all_res, built, query_imgs,
          cur_res, json_res, idx, order_res, orders, answer, calls,
          exit_status, exit_by, chunk_idx, row_i, seq_ids, res, fn,
          self_coll_id,
          filters, in_dates, fields, priority, in_val, filt_items, result>>

\* a dictionary without keys
EmptyMap == [k \in {} |-> <<>>]

\* the result of a parsing method before it is called
NoCall == [state |-> "pending", error |-> "", value |-> EmptyMap]

AoiFlows == {"full", "download_aoi", "search_only"}
CsvFlows == {"order_csv", "download_only"}

\* the flows that read self.silent (lines 588 and 1304); order_csv and
\* search_only never do, and run the same with either value
SilentFlows == {"full", "download_aoi", "download_only"}

\* the rows of a CSV file: each names its collection and carries a record
\* id column ("seq"), only an order key ("key") or neither ("none")
RowKinds == {"seq", "key", "none"}

CsvFiles(kinds) ==
  UNION {[1..n -> [coll : {CollOrder[1], CollOrder[2]}, kind : kinds]] :
           n \in 0..MaxCsvRows}

\* the local res of _get_eodmsRes: not yet assigned, None, or a list of records
Unbound == [t |-> "unbound", recs |-> <<>>]
NoneRes == [t |-> "none", recs |-> <<>>]
ListRes(recs) == [t |-> "list", recs |-> recs]

Call(op, coll, filt, recs) == [op |-> op, coll |-> coll, filt |-> filt, recs |-> recs]

Init ==
  /\ process \in AoiFlows \cup CsvFlows
  /\ silent \in (IF process \in SilentFlows THEN BOOLEAN ELSE {FALSE})
  /\ input_ok \in BOOLEAN
  /\ maximum \in MaxTexts
  /\ collections \in (IF process \in AoiFlows
                      THEN {SubSeq(CollOrder, 1, n) : n \in 1..MaxColls}
                      ELSE {<<>>})
  /\ csv_rows \in (CASE process = "order_csv" -> CsvFiles(RowKinds)
                     [] process = "download_only" -> CsvFiles({"seq"})
                     [] OTHER -> {<<>>})
  /\ pc = "start"
  /\ fn_str = FALSE
  /\ max_images = PyNone
  /\ max_items = PyNone
  /\ coll_i = 1
  /\ all_res = <<>>
  /\ built = FALSE
  /\ query_imgs = <<>>
  /\ cur_res = FALSE
  /\ json_res = <<>>
  /\ idx = 0
  /\ order_res = <<>>
  /\ orders = <<>>
  /\ answer = <<>>
  /\ calls = <<>>
  /\ exit_status = -1
  /\ exit_by = "running"
  /\ chunk_idx = 0
  /\ row_i = 1
  /\ seq_ids = <<>>
  /\ res = Unbound
  /\ fn = "none"
  /\ self_coll_id = "None"
  /\ filters = <<>>
  /\ in_dates = ""
  /\ fields = <<>>
  /\ priority = PyNone
  /\ in_val = ""
  /\ filt_items = ""
  /\ result = NoCall

(***************************************************************************)
(* Ends of a run.                                                          *)
(***************************************************************************)
\* export_results without the test of cur_res of line 490
export_results_NoGuard(imgs) ==
  IF fn_str THEN <<Call("export", "", {}, imgs)>>
  ELSE <<Call("AttributeError", "", {}, <<>>)>>

\* export_results: nothing when cur_res is None, else the results CSV of
\* the images cur_res refers to
export_results(imgs) ==
  IF ~cur_res THEN <<>>
  ELSE IF fn_str THEN <<Call("export", "", {}, imgs)>>
  ELSE <<Call("AttributeError", "", {}, <<>>)>>

\* sys.exit(status)
Exit(status, by) ==
  /\ pc' = "exited"
  /\ exit_status' = status
  /\ exit_by' = by

\* main: "except Exception": the results are exported and main returns
HandleException(made) ==
  /\ calls' = calls \o made \o export_results(query_imgs)
  /\ Exit(0, "exception")

\* main: "except KeyboardInterrupt": export_results, then sys.exit(1)
KeyboardInterrupt ==
  /\ pc # "exited"
  /\ calls' = calls \o export_results(query_imgs)
  /\ Exit(1, "interrupt")
  /\ UNCHANGED <<inputs, parsing, res, fn_str, max_images, max_items, coll_i, all_res, built,
                 query_imgs, cur_res, json_res, idx, order_res, orders, answer,
                 chunk_idx, row_i, seq_ids>>

(***************************************************************************)
(* Entry of the flows: check of the input file, self.fn_str, parse_max.    *)
(***************************************************************************)
\* the first statements of a flow; parses says which results of parse_max
\* the flow keeps and first is the position after them
FlowEntry(parses, first) ==
  /\ pc = "start"
  /\ IF ~input_ok
     THEN /\ Exit(1, "sys.exit")
          /\ UNCHANGED <<fn_str, max_images, max_items>>
     ELSE /\ fn_str' = TRUE
          /\ max_images' = IF 1 \in parses THEN parse_max(maximum)[1] ELSE max_images
          /\ max_items' = IF 2 \in parses THEN parse_max(maximum)[2] ELSE max_items
          /\ pc' = first
          /\ UNCHANGED <<exit_status, exit_by>>
  /\ UNCHANGED <<inputs, parsing, res, coll_i, all_res, built, query_imgs, cur_res,
                 json_res, idx, order_res, orders, answer, calls,
                 chunk_idx, row_i, seq_ids>>

search_orderDownload_entry == process = "full" /\ FlowEntry({1, 2}, "query")

order_csv_entry == process = "order_csv" /\ FlowEntry({1, 2}, "csv_rows")

download_aoi_entry == process = "download_aoi" /\ FlowEntry({2}, "query")

download_only_entry == process = "download_only" /\ FlowEntry({}, "prev_res")

search_only_entry == process = "search_only" /\ FlowEntry({1, 2}, "query")

(***************************************************************************)
(* query_entries: one search per collection, then the ImageList.           *)
(***************************************************************************)
\* the filters of the search call for a collection
QueryFilters(coll_id) == IF coll_id = "NAPL" THEN {"Price"} ELSE {}

\* the outcomes of one search call: the records it returns, or a failure
\* raised by the RAPI client
SearchOutcomes(coll_id) ==
  {[raised |-> FALSE, recs |-> RawRecs(coll_id, n)] : n \in 0..MaxPerSearch}
    \cup {[raised |-> TRUE, recs |-> <<>>]}

query_entries_search ==
  /\ pc = "query"
  /\ coll_i <= Len(collections)
  /\ LET coll_id == get_fullCollId(collections[coll_i])
         made == <<Call("search", coll_id, QueryFilters(coll_id), <<>>)>>
     IN \E out \in SearchOutcomes(coll_id) :
          IF out.raised
          THEN /\ HandleException(made)
               /\ UNCHANGED <<all_res, coll_i>>
          ELSE /\ calls' = calls \o made
               /\ all_res' = all_res \o out.recs
               /\ coll_i' = coll_i + 1
               /\ UNCHANGED <<pc, exit_status, exit_by>>
  /\ UNCHANGED <<inputs, parsing, res, fn_str, max_images, max_items, built, query_imgs,
                 cur_res, json_res, idx, order_res, orders, answer,
                 chunk_idx, row_i, seq_ids>>

query_entries_ingest ==
  /\ pc = "query"
  /\ coll_i > Len(collections)
  /\ query_imgs' = ingest_results(all_res)
  /\ built' = TRUE
  /\ pc' = "queried"
  /\ UNCHANGED <<inputs, parsing, res, fn_str, max_images, max_items, coll_i, all_res,
                 cur_res, json_res, idx, order_res, orders, answer,
                 calls, exit_status, exit_by, chunk_idx, row_i, seq_ids>>

(***************************************************************************)
(* search_orderDownload (process "full").                                  *)
(***************************************************************************)
\* lines 1285-1295: no results is fatal, else cur_res is set
search_orderDownload_results ==
  /\ process = "full"
  /\ pc = "queried"
  /\ IF NoResults(query_imgs)
     THEN Exit(1, "sys.exit") /\ UNCHANGED cur_res
     ELSE /\ cur_res' = TRUE
          /\ pc' = "confirm"
          /\ UNCHANGED <<exit_status, exit_by>>
  /\ UNCHANGED <<inputs, parsing, res, fn_str, max_images, max_items, coll_i, all_res,
                 built, query_imgs, json_res, idx, order_res, orders,
                 answer, calls, chunk_idx, row_i, seq_ids>>

\* TrimResults with the result cap always applied to the images overall
TrimResults_Overall(imgs, n, colls) == trim(imgs, n)

\* lines 1316-1324: with one collection the images are trimmed to the first
\* n overall, with several to the first n of each collection
TrimResults(imgs, n, colls) ==
  IF Len(colls) = 1 THEN trim(imgs, n) ELSE trim_colls(imgs, n, colls)

\* position of the ordering stage for the given items-per-order cap
OrderEntry(items) == IF SingleOrder(items) THEN "order_all" ELSE "order_loop"

\* lines 1301-1313: without a result cap the operator is asked to proceed
search_orderDownload_confirm ==
  /\ process = "full"
  /\ pc = "confirm"
  /\ AskProceed(max_images, silent)
  /\ \E ans \in Answers :
       /\ answer' = ans
       /\ IF AnswerDeclines(ans)
          THEN /\ calls' = calls \o <<Call("prompt", "", {}, <<>>)>>
                              \o export_results(query_imgs)
               /\ Exit(0, "sys.exit")
               /\ UNCHANGED <<json_res, idx, orders>>
          ELSE /\ calls' = Append(calls, Call("prompt", "", {}, <<>>))
               /\ json_res' = get_raw(query_imgs)
               /\ orders' = <<>>
               /\ idx' = 0
               /\ pc' = OrderEntry(max_items)
               /\ UNCHANGED <<exit_status, exit_by>>
  /\ UNCHANGED <<inputs, parsing, res, fn_str, max_images, max_items, coll_i, all_res,
                 built, query_imgs, cur_res, order_res, chunk_idx, row_i,
                 seq_ids>>

\* lines 1301-1334 without a question: silent mode, or the results are
\* trimmed to the result cap
search_orderDownload_trim ==
  /\ process = "full"
  /\ pc = "confirm"
  /\ ~AskProceed(max_images, silent)
  /\ LET trimmed ==
           IF NoMaxImages(max_images) THEN query_imgs
           ELSE TrimResults(query_imgs, max_images.n, collections)
     IN /\ query_imgs' = trimmed
        /\ json_res' = get_raw(trimmed)
  /\ orders' = <<>>
  /\ idx' = 0
  /\ pc' = OrderEntry(max_items)
  /\ UNCHANGED <<inputs, parsing, res, fn_str, max_images, max_items, coll_i, all_res,
                 built, cur_res, order_res, answer, calls, exit_status,
                 exit_by, chunk_idx, row_i, seq_ids>>

\* the order responses without items that the run has ingested
FailedOrders ==
  Len(SelectSeq(calls, LAMBDA c : c.op = "ingest" /\ c.recs = <<>>))

\* the outcomes of one order call for the records recs: every record is
\* ordered, the response holds no order item, or the call fails
OrderOutcomes(recs) ==
  {[raised |-> FALSE, items |-> recs], [raised |-> TRUE, items |-> <<>>]}
    \cup (IF FailedOrders < MaxFailedOrders
          THEN {[raised |-> FALSE, items |-> <<>>]} ELSE {})

\* one call of eodms_rapi.order for recs; its response waits in order_res
OrderCall(recs, after) ==
  LET made == <<Call("order", "", {}, recs)>>
  IN \E out \in OrderOutcomes(recs) :
       IF out.raised
       THEN /\ HandleException(made)
            /\ UNCHANGED order_res
       ELSE /\ calls' = calls \o made
            /\ order_res' = out.items
            /\ pc' = after
            /\ UNCHANGED <<exit_status, exit_by>>

\* line 1339: all images in a single order
search_orderDownload_order_all ==
  /\ process = "full"
  /\ pc = "order_all"
  /\ OrderCall(json_res, "ingest_all")
  /\ UNCHANGED <<inputs, parsing, res, fn_str, max_images, max_items, coll_i, all_res,
                 built, query_imgs, cur_res, json_res, idx, orders,
                 answer, chunk_idx, row_i, seq_ids>>

\* line 1340: orders.ingest_results(order_res)
search_orderDownload_ingest_all ==
  /\ process = "full"
  /\ pc = "ingest_all"
  /\ orders' = orders \o order_res
  /\ calls' = Append(calls, Call("ingest", "", {}, order_res))
  /\ order_res' = <<>>
  /\ pc' = "ordered"
  /\ UNCHANGED <<inputs, parsing, res, fn_str, max_images, max_items, coll_i, all_res,
                 built, query_imgs, cur_res, json_res, idx, answer,
                 exit_status, exit_by, chunk_idx, row_i, seq_ids>>

\* line 1343: range() raises TypeError for the step '' that parse_max
\* returns for a maximum text ending in ':'
search_orderDownload_loop_error ==
  /\ process = "full"
  /\ pc = "order_loop"
  /\ max_items.t = "str"
  /\ HandleException(<<>>)
  /\ UNCHANGED <<inputs, parsing, res, fn_str, max_images, max_items, coll_i, all_res, built,
                 query_imgs, cur_res, json_res, idx, order_res, orders, answer,
                 chunk_idx, row_i, seq_ids>>

\* lines 1343-1350: the order call of the chunk at idx
search_orderDownload_order_chunk ==
  /\ process = "full"
  /\ pc = "order_loop"
  /\ max_items.t = "int"
  /\ ~RangeDone(json_res, idx)
  /\ OrderCall(NextChunk(json_res, idx, max_items.n), "ingest_chunk")
  /\ UNCHANGED <<inputs, parsing, res, fn_str, max_images, max_items, coll_i, all_res,
                 built, query_imgs, cur_res, json_res, idx, orders,
                 answer, chunk_idx, row_i, seq_ids>>

\* line 1351: orders.ingest_results(order_res), then the next idx
search_orderDownload_ingest_chunk ==
  /\ process = "full"
  /\ pc = "ingest_chunk"
  /\ orders' = orders \o order_res
  /\ calls' = Append(calls, Call("ingest", "", {}, order_res))
  /\ order_res' = <<>>
  /\ idx' = idx + max_items.n
  /\ pc' = "order_loop"
  /\ UNCHANGED <<inputs, parsing, res, fn_str, max_images, max_items, coll_i, all_res,
                 built, query_imgs, cur_res, json_res, answer,
                 exit_status, exit_by, chunk_idx, row_i, seq_ids>>

\* line 1343: the loop has no further chunk
search_orderDownload_loop_end ==
  /\ process = "full"
  /\ pc = "order_loop"
  /\ max_items.t = "int"
  /\ RangeDone(json_res, idx)
  /\ pc' = "ordered"
  /\ UNCHANGED <<inputs, parsing, res, fn_str, max_images, max_items, coll_i, all_res,
                 built, query_imgs, cur_res, json_res, idx, order_res,
                 orders, answer, calls, exit_status, exit_by, chunk_idx,
                 row_i, seq_ids>>

\* after the ordering stage: cur_res is set, and no order item is fatal
OrdersCheck ==
  /\ pc = "ordered"
  /\ cur_res' = TRUE
  /\ IF NoOrders(orders)
     THEN /\ calls' = calls \o <<Call("export", "", {}, query_imgs)>>
          /\ Exit(1, "sys.exit")
     ELSE /\ pc' = "download"
          /\ UNCHANGED <<calls, exit_status, exit_by>>
  /\ UNCHANGED <<inputs, parsing, res, fn_str, max_images, max_items, coll_i, all_res,
                 built, query_imgs, json_res, idx, order_res, orders,
                 answer, chunk_idx, row_i, seq_ids>>

\* lines 1353-1362
search_orderDownload_orders == process = "full" /\ OrdersCheck

\* the outcomes of the download call for the order items: a status for
\* every item, no outcome at all, or a failure of the call
DownloadOutcomes(items) ==
  {[raised |-> FALSE, items |-> items, status |-> s] : s \in DownloadStatuses}
    \cup {[raised |-> FALSE, items |-> <<>>, status |-> ""],
          [raised |-> TRUE, items |-> <<>>, status |-> ""]}

\* eodms_rapi.download of the order items, then query_imgs.update_downloads
Download ==
  /\ pc = "download"
  /\ LET made == <<Call("download", "", {}, orders)>>
     IN \E out \in DownloadOutcomes(orders) :
          IF out.raised
          THEN /\ HandleException(made)
               /\ UNCHANGED query_imgs
          ELSE /\ calls' = calls \o made
               /\ query_imgs' = update_downloads(query_imgs, out.items, out.status)
               /\ pc' = "report"
               /\ UNCHANGED <<exit_status, exit_by>>
  /\ UNCHANGED <<inputs, parsing, res, fn_str, max_images, max_items, coll_i, all_res,
                 built, cur_res, json_res, idx, order_res, orders,
                 answer, chunk_idx, row_i, seq_ids>>

\* lines 396-403: the images whose download is reported as failed
failed_orders(images) ==
  SelectSeq(images, LAMBDA img : img.status # AvailableStatus)

\* lines 388-441: the failed downloads are printed with their status
print_results(images) == <<Call("_print_results", "", {}, failed_orders(images))>>

\* the end of a flow: the downloads are printed when the flow calls
\* _print_results, cur_res is set when sets_cur, the results are exported
\* and main completes
Report(sets_cur, prints) ==
  /\ pc = "report"
  /\ cur_res' = (cur_res \/ sets_cur)
  /\ calls' = calls \o (IF prints THEN print_results(query_imgs) ELSE <<>>)
                     \o (IF cur_res \/ sets_cur
                         THEN <<Call("export", "", {}, query_imgs)>> ELSE <<>>)
  /\ Exit(0, "complete")
  /\ UNCHANGED <<inputs, parsing, res, fn_str, max_images, max_items, coll_i, all_res,
                 built, query_imgs, json_res, idx, order_res, orders,
                 answer, chunk_idx, row_i, seq_ids>>

\* lines 1368-1379
search_orderDownload_download == process = "full" /\ Download

\* lines 1381-1394
search_orderDownload_report == process = "full" /\ Report(TRUE, TRUE)

(***************************************************************************)
(* retrieve_orders: existing orders of the images, and the fork taken when *)
(* there is none.                                                          *)
(***************************************************************************)
\* the outcomes of get_ordersByRecords: every record has an order, none
\* has, or the call fails
LookupOutcomes(recs) ==
  {[raised |-> FALSE, items |-> recs], [raised |-> FALSE, items |-> <<>>],
   [raised |-> TRUE, items |-> <<>>]}

\* lines 577-584
retrieve_orders_lookup ==
  /\ process \in {"download_aoi", "download_only"}
  /\ pc = "lookup"
  /\ LET recs == get_raw(query_imgs)
         made == <<Call("getOrders", "", {}, recs)>>
     IN /\ json_res' = recs
        /\ \E out \in LookupOutcomes(recs) :
             IF out.raised
             THEN /\ HandleException(made)
                  /\ UNCHANGED orders
             ELSE /\ calls' = calls \o made
                  /\ orders' = out.items
                  /\ pc' = "fork"
                  /\ UNCHANGED <<exit_status, exit_by>>
  /\ UNCHANGED <<inputs, parsing, res, fn_str, max_images, max_items, coll_i, all_res,
                 built, query_imgs, cur_res, idx, order_res, answer,
                 chunk_idx, row_i, seq_ids>>

\* lines 586, 616-619: orders were found
retrieve_orders_found ==
  /\ process \in {"download_aoi", "download_only"}
  /\ pc = "fork"
  /\ ~NoOrders(orders)
  /\ cur_res' = TRUE
  /\ pc' = "download"
  /\ UNCHANGED <<inputs, parsing, res, fn_str, max_images, max_items, coll_i, all_res,
                 built, query_imgs, json_res, idx, order_res, orders,
                 answer, calls, exit_status, exit_by, chunk_idx, row_i,
                 seq_ids>>

\* lines 586-596: no order was found, silent mode
retrieve_orders_silent ==
  /\ process \in {"download_aoi", "download_only"}
  /\ pc = "fork"
  /\ NoOrders(orders)
  /\ silent
  /\ calls' = calls \o export_results(query_imgs)
  /\ Exit(0, "sys.exit")
  /\ UNCHANGED <<inputs, parsing, res, fn_str, max_images, max_items, coll_i, all_res,
                 built, query_imgs, cur_res, json_res, idx, order_res,
                 orders, answer, chunk_idx, row_i, seq_ids>>

\* lines 597-612: no order was found, the operator is asked
retrieve_orders_ask ==
  /\ process \in {"download_aoi", "download_only"}
  /\ pc = "fork"
  /\ NoOrders(orders)
  /\ ~silent
  /\ \E ans \in Answers :
       /\ answer' = ans
       /\ IF AnswerOrders(ans)
          THEN /\ calls' = Append(calls, Call("prompt", "", {}, <<>>))
               /\ pc' = "fork_order"
               /\ UNCHANGED <<exit_status, exit_by>>
          ELSE /\ calls' = calls \o <<Call("prompt", "", {}, <<>>)>>
                              \o export_results(query_imgs)
               /\ Exit(0, "sys.exit")
  /\ UNCHANGED <<inputs, parsing, res, fn_str, max_images, max_items, coll_i, all_res,
                 built, query_imgs, cur_res, json_res, idx, order_res,
                 orders, chunk_idx, row_i, seq_ids>>

\* line 603: the images are ordered in one call
retrieve_orders_order ==
  /\ process \in {"download_aoi", "download_only"}
  /\ pc = "fork_order"
  /\ OrderCall(json_res, "fork_ingest")
  /\ UNCHANGED <<inputs, parsing, res, fn_str, max_images, max_items, coll_i, all_res,
                 built, query_imgs, cur_res, json_res, idx, orders,
                 answer, chunk_idx, row_i, seq_ids>>

\* lines 614-619
retrieve_orders_ingest ==
  /\ process \in {"download_aoi", "download_only"}
  /\ pc = "fork_ingest"
  /\ orders' = orders \o order_res
  /\ calls' = Append(calls, Call("ingest", "", {}, order_res))
  /\ order_res' = <<>>
  /\ cur_res' = TRUE
  /\ pc' = "download"
  /\ UNCHANGED <<inputs, parsing, res, fn_str, max_images, max_items, coll_i, all_res,
                 built, query_imgs, json_res, idx, answer, exit_status,
                 exit_by, chunk_idx, row_i, seq_ids>>

(***************************************************************************)
(* download_aoi, download_only and search_only.                            *)
(***************************************************************************)
\* lines 1552-1562
download_aoi_results ==
  /\ process = "download_aoi"
  /\ pc = "queried"
  /\ IF NoResults(query_imgs)
     THEN Exit(1, "sys.exit") /\ UNCHANGED cur_res
     ELSE /\ cur_res' = TRUE
          /\ pc' = "lookup"
          /\ UNCHANGED <<exit_status, exit_by>>
  /\ UNCHANGED <<inputs, parsing, res, fn_str, max_images, max_items, coll_i, all_res,
                 built, query_imgs, json_res, idx, order_res, orders,
                 answer, calls, chunk_idx, row_i, seq_ids>>

\* lines 1578-1589
download_aoi_download == process = "download_aoi" /\ Download

\* lines 1591-1604
download_aoi_report == process = "download_aoi" /\ Report(TRUE, TRUE)

\* the images of a results CSV file of a previous session
PrevRecs(rows) == [i \in 1..Len(rows) |-> [coll |-> rows[i].coll, id |-> i]]

\* line 1639: _get_prevRes
download_only_prevRes ==
  /\ process = "download_only"
  /\ pc = "prev_res"
  /\ query_imgs' = ingest_results(PrevRecs(csv_rows))
  /\ built' = TRUE
  /\ pc' = "lookup"
  /\ UNCHANGED <<inputs, parsing, res, fn_str, max_images, max_items, coll_i, all_res,
                 cur_res, json_res, idx, order_res, orders, answer,
                 calls, exit_status, exit_by, chunk_idx, row_i, seq_ids>>

\* lines 1651-1662
download_only_download == process = "download_only" /\ Download

\* lines 1664-1675
download_only_report == process = "download_only" /\ Report(FALSE, TRUE)

\* search_only_results ending the process with status 1 on both branches
search_only_results_Exit1 ==
  /\ process = "search_only"
  /\ pc = "queried"
  /\ IF NoResults(query_imgs)
     THEN Exit(1, "sys.exit") /\ UNCHANGED <<cur_res, calls>>
     ELSE /\ cur_res' = TRUE
          /\ calls' = Append(calls, Call("export", "", {}, query_imgs))
          /\ Exit(1, "sys.exit")
  /\ UNCHANGED <<inputs, parsing, res, fn_str, max_images, max_items, coll_i, all_res,
                 built, query_imgs, json_res, idx, order_res, orders,
                 answer, chunk_idx, row_i, seq_ids>>

\* lines 1733-1762
search_only_results ==
  /\ process = "search_only"
  /\ pc = "queried"
  /\ IF NoResults(query_imgs)
     THEN Exit(1, "sys.exit") /\ UNCHANGED <<cur_res, calls>>
     ELSE /\ cur_res' = TRUE
          /\ calls' = Append(calls, Call("export", "", {}, query_imgs))
          /\ Exit(0, "sys.exit")
  /\ UNCHANGED <<inputs, parsing, res, fn_str, max_images, max_items, coll_i, all_res,
                 built, query_imgs, json_res, idx, order_res, orders,
                 answer, chunk_idx, row_i, seq_ids>>

(***************************************************************************)
(* order_csv and _get_eodmsRes.                                            *)
(***************************************************************************)
\* number of CSV rows of one search by sequence id
QueryChunk == 25

\* the rows of the CSV file with their result number
NumberedRows == [i \in 1..Len(csv_rows) |->
                   [coll |-> csv_rows[i].coll, kind |-> csv_rows[i].kind, id |-> i]]

\* lines 256-268: the keys of coll_recs, in order of first appearance
CollKeys == Dedup([i \in 1..Len(csv_rows) |-> csv_rows[i].coll])

\* lines 256-268: coll_recs[coll]
CollRecs(coll) ==
  SelectIdx(NumberedRows, {i \in 1..Len(csv_rows) : csv_rows[i].coll = coll}, 1)

\* lines 278-284: the rows of the chunk at chunk_idx
SubRecs(recs, at) ==
  IF Len(recs) < at + QueryChunk
  THEN SubSeq(recs, at + 1, Len(recs))
  ELSE SubSeq(recs, at + 1, QueryChunk + at)

\* the outcomes of the search by order key: no, one or two records
KeyOutcomes(coll_id, rec) ==
  {[raised |-> FALSE, recs |-> <<>>],
   [raised |-> FALSE, recs |-> <<[coll |-> coll_id, id |-> rec.id]>>],
   [raised |-> FALSE, recs |-> <<[coll |-> coll_id, id |-> rec.id],
                                   [coll |-> coll_id, id |-> rec.id + Len(csv_rows)]>>],
   [raised |-> TRUE, recs |-> <<>>]}

\* lines 319-328: the records that the search by order key contributes
KeyMatch_All(found) == found

KeyMatch(found) == IF Len(found) > 1 THEN <<>> ELSE found

\* lines 288-331: one row of the chunk
get_eodmsRes_row ==
  /\ process = "order_csv"
  /\ pc = "csv_rows"
  /\ coll_i <= Len(CollKeys)
  /\ LET coll == CollKeys[coll_i]
         sub_recs == SubRecs(CollRecs(coll), chunk_idx)
     IN /\ row_i <= Len(sub_recs)
        /\ LET rec == sub_recs[row_i]
               made == <<Call("search", get_fullCollId(coll), {"Order Key"}, <<>>)>>
           IN CASE rec.kind = "seq" ->
                     /\ seq_ids' = Append(seq_ids, rec.id)
                     /\ row_i' = row_i + 1
                     /\ UNCHANGED <<all_res, calls, pc, exit_status, exit_by, res>>
                [] rec.kind = "none" ->
                     /\ row_i' = row_i + 1
                     /\ UNCHANGED <<seq_ids, all_res, calls, pc, exit_status,
                                    exit_by, res>>
                [] rec.kind = "key" ->
                     \E out \in KeyOutcomes(get_fullCollId(coll), rec) :
                       IF out.raised
                       THEN /\ HandleException(made)
                            /\ UNCHANGED <<seq_ids, all_res, row_i, res>>
                       ELSE /\ calls' = calls \o made
                            /\ res' = ListRes(out.recs)
                            /\ all_res' = all_res \o KeyMatch(out.recs)
                            /\ row_i' = row_i + 1
                            /\ UNCHANGED <<seq_ids, pc, exit_status, exit_by>>
  /\ UNCHANGED <<inputs, parsing, fn_str, max_images, max_items, coll_i, built,
                 query_imgs, cur_res, json_res, idx, order_res, orders,
                 answer, chunk_idx>>

\* lines 335-338: the filters of the search by sequence id
SeqFilters(coll) ==
  {"Sequence Id"} \cup (IF coll = "NAPL" THEN {"Price"} ELSE {})

\* the outcomes of the search by sequence id: None, no record, the records
\* of the ids, or a failure
SeqOutcomes(coll, ids) ==
  {[raised |-> FALSE, none |-> TRUE, recs |-> <<>>],
   [raised |-> FALSE, none |-> FALSE, recs |-> <<>>],
   [raised |-> FALSE, none |-> FALSE,
    recs |-> [i \in 1..Len(ids) |-> [coll |-> coll, id |-> ids[i]]]],
   [raised |-> TRUE, none |-> FALSE, recs |-> <<>>]}

\* lines 278, 272: the position after the chunk at chunk_idx
NextPosition ==
  IF chunk_idx + QueryChunk >= Len(CollRecs(CollKeys[coll_i]))
  THEN <<coll_i + 1, 0>>
  ELSE <<coll_i, chunk_idx + QueryChunk>>

\* lines 346-357: None is joined as a list of words (TypeError) and the
\* empty list is reported through the name common, which the script never
\* binds (NameError); only a list with records passes
ChunkFails(found) == found.t = "none" \/ Len(found.recs) = 0

\* lines 347, 354: the error raised on None and on the empty list
ChunkError(found) ==
  Call(IF found.t = "none" THEN "TypeError" ELSE "NameError", "", {}, <<>>)

\* lines 333-360: the search of the sequence ids of the chunk
get_eodmsRes_chunk ==
  /\ process = "order_csv"
  /\ pc = "csv_rows"
  /\ coll_i <= Len(CollKeys)
  /\ LET coll == CollKeys[coll_i]
         sub_recs == SubRecs(CollRecs(coll), chunk_idx)
         made == <<Call("search", coll, SeqFilters(coll), <<>>)>>
         advance == /\ coll_i' = NextPosition[1]
                    /\ chunk_idx' = NextPosition[2]
                    /\ row_i' = 1
                    /\ seq_ids' = <<>>
                    /\ UNCHANGED <<pc, exit_status, exit_by>>
     IN /\ row_i > Len(sub_recs)
        /\ IF Len(seq_ids) = 0
           THEN advance /\ UNCHANGED <<calls, all_res, res>>
           ELSE \E out \in SeqOutcomes(coll, seq_ids) :
                  LET found == IF out.none THEN NoneRes ELSE ListRes(out.recs)
                  IN IF out.raised
                     THEN /\ HandleException(made)
                          /\ UNCHANGED <<all_res, coll_i, chunk_idx, row_i,
                                         seq_ids, res>>
                     ELSE IF ChunkFails(found)
                     THEN /\ HandleException(made \o <<ChunkError(found)>>)
                          /\ res' = found
                          /\ UNCHANGED <<all_res, coll_i, chunk_idx, row_i,
                                         seq_ids>>
                     ELSE /\ calls' = calls \o made
                          /\ res' = found
                          /\ all_res' = all_res \o found.recs
                          /\ advance
  /\ UNCHANGED <<inputs, parsing, fn_str, max_images, max_items, built, query_imgs,
                 cur_res, json_res, idx, order_res, orders, answer>>

\* lines 362-366 and 1439-1446
get_eodmsRes_ingest ==
  /\ process = "order_csv"
  /\ pc = "csv_rows"
  /\ coll_i > Len(CollKeys)
  /\ query_imgs' = ingest_results(all_res)
  /\ built' = TRUE
  /\ cur_res' = TRUE
  /\ json_res' = get_raw(ingest_results(all_res))
  /\ pc' = "csv_order"
  /\ UNCHANGED <<inputs, parsing, res, fn_str, max_images, max_items, coll_i, all_res, idx,
                 order_res, orders, answer, calls, exit_status, exit_by,
                 chunk_idx, row_i, seq_ids>>

\* line 1449: the images are ordered in one call
order_csv_order ==
  /\ process = "order_csv"
  /\ pc = "csv_order"
  /\ OrderCall(json_res, "csv_ingest")
  /\ UNCHANGED <<inputs, parsing, res, fn_str, max_images, max_items, coll_i, all_res,
                 built, query_imgs, cur_res, json_res, idx, orders,
                 answer, chunk_idx, row_i, seq_ids>>

\* lines 1452-1453
order_csv_ingest ==
  /\ process = "order_csv"
  /\ pc = "csv_ingest"
  /\ orders' = orders \o order_res
  /\ calls' = Append(calls, Call("ingest", "", {}, order_res))
  /\ order_res' = <<>>
  /\ pc' = "ordered"
  /\ UNCHANGED <<inputs, parsing, res, fn_str, max_images, max_items, coll_i, all_res,
                 built, query_imgs, cur_res, json_res, idx, answer,
                 exit_status, exit_by, chunk_idx, row_i, seq_ids>>

\* lines 1455-1464
order_csv_orders == process = "order_csv" /\ OrdersCheck

\* lines 1466-1481
order_csv_download == process = "order_csv" /\ Download

\* lines 1483-1494: order_csv does not call _print_results
order_csv_report == process = "order_csv" /\ Report(TRUE, FALSE)

(***************************************************************************)
(* The run.                                                                *)
(***************************************************************************)
Next ==
  \/ search_orderDownload_entry
  \/ order_csv_entry
  \/ download_aoi_entry
  \/ download_only_entry
  \/ search_only_entry
  \/ query_entries_search
  \/ query_entries_ingest
  \/ search_orderDownload_results
  \/ search_orderDownload_confirm
  \/ search_orderDownload_trim
  \/ search_orderDownload_order_all
  \/ search_orderDownload_ingest_all
  \/ search_orderDownload_loop_error
  \/ search_orderDownload_order_chunk
  \/ search_orderDownload_ingest_chunk
  \/ search_orderDownload_loop_end
  \/ search_orderDownload_orders
  \/ search_orderDownload_download
  \/ search_orderDownload_report
  \/ retrieve_orders_lookup
  \/ retrieve_orders_found
  \/ retrieve_orders_silent
  \/ retrieve_orders_ask
  \/ retrieve_orders_order
  \/ retrieve_orders_ingest
  \/ download_aoi_results
  \/ download_aoi_download
  \/ download_aoi_report
  \/ download_only_prevRes
  \/ download_only_download
  \/ download_only_report
  \/ search_only_results
  \/ get_eodmsRes_row
  \/ get_eodmsRes_chunk
  \/ get_eodmsRes_ingest
  \/ order_csv_order
  \/ order_csv_ingest
  \/ order_csv_orders
  \/ order_csv_download
  \/ order_csv_report
  \/ KeyboardInterrupt

Spec == Init /\ [][Next]_vars

(***************************************************************************)
(* Python text methods, on strings.                                        *)
(***************************************************************************)
\* s[i - 1]: the character at position i, counted from 1
Char(s, i) == SubSeq(s, i, i)

\* "sub in s"
Contains(s, sub) ==
  \E i \in 1..(Len(s) - Len(sub) + 1) : SubSeq(s, i, i + Len(sub) - 1) = sub

\* position of the first occurrence of sub in s, 0 when there is none
IndexOf(s, sub) ==
  LET at == {i \in 1..(Len(s) - Len(sub) + 1) :
               SubSeq(s, i, i + Len(sub) - 1) = sub}
  IN IF at = {} THEN 0 ELSE CHOOSE i \in at : \A j \in at : i <= j

\* s.split(sep)
RECURSIVE Split(_, _)
Split(s, sep) ==
  LET i == IndexOf(s, sep)
  IN IF i = 0 THEN <<s>>
     ELSE <<SubSeq(s, 1, i - 1)>> \o Split(SubSeq(s, i + Len(sep), Len(s)), sep)

\* s.strip(), for texts whose only whitespace is the space
RECURSIVE Strip(_)
Strip(s) ==
  IF s = "" THEN ""
  ELSE IF Char(s, 1) = " " THEN Strip(SubSeq(s, 2, Len(s)))
  ELSE IF Char(s, Len(s)) = " " THEN Strip(SubSeq(s, 1, Len(s) - 1))
  ELSE s

\* s.replace(ch, '') for a character ch
RECURSIVE Remove(_, _)
Remove(s, ch) ==
  IF s = "" THEN ""
  ELSE (IF Char(s, 1) = ch THEN "" ELSE Char(s, 1))
         \o Remove(SubSeq(s, 2, Len(s)), ch)

\* s.replace(ch, by) for characters ch and by
RECURSIVE Replace(_, _, _)
Replace(s, ch, by) ==
  IF s = "" THEN ""
  ELSE (IF Char(s, 1) = ch THEN by ELSE Char(s, 1))
         \o Replace(SubSeq(s, 2, Len(s)), ch, by)

LowerLetters == "abcdefghijklmnopqrstuvwxyz"
UpperLetters == "ABCDEFGHIJKLMNOPQRSTUVWXYZ"

\* the character c with the letters of from replaced by those of to
MapLetter(c, from, to) ==
  LET i == IndexOf(from, c)
  IN IF i = 0 THEN c ELSE Char(to, i)

\* the characters of a text
CharsOf(s) == {Char(s, i) : i \in 1..Len(s)}

LowerSet == CharsOf(LowerLetters)
UpperSet == CharsOf(UpperLetters)

\* s.upper()
RECURSIVE Upper(_)
Upper(s) ==
  IF s = "" THEN ""
  ELSE (IF Char(s, 1) \in LowerSet
        THEN MapLetter(Char(s, 1), LowerLetters, UpperLetters)
        ELSE Char(s, 1))
         \o Upper(SubSeq(s, 2, Len(s)))

\* s.lower(), on strings
RECURSIVE LowerStr(_)
LowerStr(s) ==
  IF s = "" THEN ""
  ELSE (IF Char(s, 1) \in UpperSet
        THEN MapLetter(Char(s, 1), UpperLetters, LowerLetters)
        ELSE Char(s, 1))
         \o LowerStr(SubSeq(s, 2, Len(s)))

(***************************************************************************)
(* _parse_filters: the filter entries of a collection to the query form of *)
(* the RAPI.                                                               *)
(***************************************************************************)
\* self.operators
operators ==
  <<"=", "<", ">", "<>", "<=", ">=", " LIKE ", " STARTS WITH ",
    " ENDS WITH ", " CONTAINS ", " CONTAINED BY ", " CROSSES ",
    " DISJOINT WITH ", " INTERSECTS ", " OVERLAPS ", " TOUCHES ", " WITHIN ">>

\* get_filtMap: for every collection, the field of each filter key
get_filtMap ==
  "COSMO-SkyMed1" :>
      ("ORBIT_DIRECTION" :> "Absolute Orbit"
       @@ "PIXEL_SPACING" :> "Spatial Resolution")
  @@ "DMC" :>
      ("CLOUD_COVER" :> "Cloud Cover"
       @@ "PIXEL_SPACING" :> "Spatial Resolution"
       @@ "INCIDENCE_ANGLE" :> "Incidence Angle")
  @@ "Gaofen-1" :>
      ("CLOUD_COVER" :> "Cloud Cover"
       @@ "PIXEL_SPACING" :> "Spatial Resolution"
       @@ "INCIDENCE_ANGLE" :> "Sensor Incidence Angle")
  @@ "GeoEye-1" :>
      ("CLOUD_COVER" :> "Cloud Cover"
       @@ "PIXEL_SPACING" :> "Spatial Resolution"
       @@ "INCIDENCE_ANGLE" :> "Sensor Incidence Angle"
       @@ "SENSOR_MODE" :> "Sensor Mode")
  @@ "IKONOS" :>
      ("CLOUD_COVER" :> "Cloud Cover"
       @@ "PIXEL_SPACING" :> "Spatial Resolution"
       @@ "INCIDENCE_ANGLE" :> "Sensor Incidence Angle"
       @@ "SENSOR_MODE" :> "Sensor Mode")
  @@ "IRS" :>
      ("CLOUD_COVER" :> "Cloud Cover"
       @@ "PIXEL_SPACING" :> "Spatial Resolution"
       @@ "INCIDENCE_ANGLE" :> "Sensor Incidence Angle"
       @@ "SENSOR_MODE" :> "Sensor Mode")
  @@ "NAPL" :>
      ("COLOUR" :> "Sensor Mode"
       @@ "SCALE" :> "Scale"
       @@ "ROLL" :> "Roll Number"
       @@ "PHOTO_NUMBER" :> "Photo Number")
  @@ "PlanetScope" :>
      ("CLOUD_COVER" :> "Cloud Cover"
       @@ "PIXEL_SPACING" :> "Spatial Resolution"
       @@ "INCIDENCE_ANGLE" :> "Sensor Incidence Angle")
  @@ "QuickBird-2" :>
      ("CLOUD_COVER" :> "Cloud Cover"
       @@ "PIXEL_SPACING" :> "Spatial Resolution"
       @@ "INCIDENCE_ANGLE" :> "Sensor Incidence Angle"
       @@ "SENSOR_MODE" :> "Sensor Mode")
  @@ "RCMImageProducts" :>
      ("ORBIT_DIRECTION" :> "Orbit Direction"
       @@ "PIXEL_SPACING" :> "Spatial Resolution"
       @@ "INCIDENCE_ANGLE" :> "Incidence Angle"
       @@ "BEAM_MNEMONIC" :> "Beam Mnemonic"
       @@ "BEAM_MODE_QUALIFIER" :> "Beam Mode Qualifier"
       @@ "DOWNLINK_SEGMENT_ID" :> "Downlink Segment ID"
       @@ "LUT_Applied" :> "LUT Applied"
       @@ "OPEN_DATA" :> "Open Data"
       @@ "POLARIZATION" :> "Polarization"
       @@ "PRODUCT_FORMAT" :> "Product Format"
       @@ "PRODUCT_TYPE" :> "Product Type"
       @@ "RELATIVE_ORBIT" :> "Relative Orbit"
       @@ "WITHIN_ORBIT_TUBE" :> "Within Orbit Tube"
       @@ "ORDER_KEY" :> "Order Key"
       @@ "SEQUENCE_ID" :> "Sequence Id"
       @@ "SPECIAL_HANDLING_REQUIRED" :> "Special Handling Required")
  @@ "RCMScienceData" :>
      ("ORBIT_DIRECTION" :> "Orbit Direction"
       @@ "INCIDENCE_ANGLE" :> "Incidence Angle"
       @@ "BEAM_MODE" :> "Beam Mode Type"
       @@ "BEAM_MNEMONIC" :> "Beam Mnemonic"
       @@ "TRANSMIT_POLARIZATION" :> "Transmit Polarization"
       @@ "RECEIVE POLARIZATION" :> "Receive Polarization"
       @@ "DOWNLINK_SEGMENT_ID" :> "Downlink Segment ID")
  @@ "Radarsat1" :>
      ("ORBIT_DIRECTION" :> "Orbit Direction"
       @@ "PIXEL_SPACING" :> "Spatial Resolution"
       @@ "INCIDENCE_ANGLE" :> "Incidence Angle"
       @@ "BEAM_MNEMONIC" :> "Position"
       @@ "ORBIT" :> "Absolute Orbit")
  @@ "Radarsat1RawProducts" :>
      ("ORBIT_DIRECTION" :> "Orbit Direction"
       @@ "PIXEL_SPACING" :> "Spatial Resolution"
       @@ "INCIDENCE_ANGLE" :> "Incidence Angle"
       @@ "DATASET_ID" :> "Dataset Id"
       @@ "ARCHIVE_FACILITY" :> "Reception Facility"
       @@ "RECEPTION FACILITY" :> "Reception Facility"
       @@ "BEAM_MODE" :> "Sensor Mode"
       @@ "BEAM_MNEMONIC" :> "Position"
       @@ "ABSOLUTE_ORBIT" :> "Absolute Orbit")
  @@ "Radarsat2" :>
      ("ORBIT_DIRECTION" :> "Orbit Direction"
       @@ "PIXEL_SPACING" :> "Spatial Resolution"
       @@ "INCIDENCE_ANGLE" :> "Incidence Angle"
       @@ "SEQUENCE_ID" :> "Sequence Id"
       @@ "BEAM_MNEMONIC" :> "Position"
       @@ "LOOK_DIRECTION" :> "Look Direction"
       @@ "TRANSMIT_POLARIZATION" :> "Transmit Polarization"
       @@ "RECEIVE_POLARIZATION" :> "Receive Polarization"
       @@ "IMAGE_ID" :> "Image Id"
       @@ "RELATIVE_ORBIT" :> "Relative Orbit"
       @@ "ORDER_KEY" :> "Order Key")
  @@ "Radarsat2RawProducts" :>
      ("ORBIT_DIRECTION" :> "Orbit Direction"
       @@ "PIXEL_SPACING" :> "Spatial Resolution"
       @@ "INCIDENCE_ANGLE" :> "Incidence Angle"
       @@ "LOOK_ORIENTATION" :> "Look Orientation"
       @@ "BEAM_MODE" :> "Sensor Mode"
       @@ "BEAM_MNEMONIC" :> "Position"
       @@ "TRANSMIT_POLARIZATION" :> "Transmit Polarization"
       @@ "RECEIVE_POLARIZATION" :> "Receive Polarization"
       @@ "IMAGE_ID" :> "Image Id")
  @@ "RapidEye" :>
      ("CLOUD_COVER" :> "Cloud Cover"
       @@ "PIXEL_SPACING" :> "Spatial Resolution"
       @@ "INCIDENCE_ANGLE" :> "Sensor Incidence Angle"
       @@ "SENSOR_MODE" :> "Sensor Mode")
  @@ "SGBAirPhotos" :>
      ("SCALE" :> "Scale"
       @@ "ROLL_NUMBER" :> "Roll Number"
       @@ "PHOTO_NUMBER" :> "Photo Number"
       @@ "AREA" :> "Area")
  @@ "SPOT" :>
      ("CLOUD_COVER" :> "Cloud Cover"
       @@ "PIXEL_SPACING" :> "Spatial Resolution"
       @@ "INCIDENCE_ANGLE" :> "Sensor Incidence Angle")
  @@ "TerraSarX" :>
      ("ORBIT_DIRECTION" :> "Orbit Direction"
       @@ "PIXEL_SPACING" :> "Spatial Resolution"
       @@ "INCIDENCE_ANGLE" :> "Incidence Angle")
  @@ "VASP" :>
      ("VASP_OPTIONS" :> "Sequence Id")
  @@ "WorldView-1" :>
      ("CLOUD_COVER" :> "Cloud Cover"
       @@ "PIXEL_SPACING" :> "Spatial Resolution"
       @@ "INCIDENCE_ANGLE" :> "Sensor Incidence Angle"
       @@ "SENSOR_MODE" :> "Sensor Mode")
  @@ "WorldView-2" :>
      ("CLOUD_COVER" :> "Cloud Cover"
       @@ "PIXEL_SPACING" :> "Spatial Resolution"
       @@ "INCIDENCE_ANGLE" :> "Sensor Incidence Angle"
       @@ "SENSOR_MODE" :> "Sensor Mode")
  @@ "WorldView-3" :>
      ("CLOUD_COVER" :> "Cloud Cover"
       @@ "PIXEL_SPACING" :> "Spatial Resolution"
       @@ "INCIDENCE_ANGLE" :> "Sensor Incidence Angle"
       @@ "SENSOR_MODE" :> "Sensor Mode")

\* line 198: "ops = [x for x in self.operators if x in filt]"
OpsIn(filt) == SelectSeq(operators, LAMBDA x : Contains(filt, x))

\* what the body of the loop does with one entry: the entry is left out
\* (no operator, unknown key, no value), the lookup of the collection in
\* the field map raises KeyError, or the entry is a filter on a field
NoEntry(kind, key, op) ==
  [kind |-> kind, key |-> key, op |-> op, field |-> "", vals |-> <<>>]

\* lines 192-230: one pass of the loop, for the entry filt
ParseEntry(entry, coll) ==
  LET filt == Upper(entry)
      ops == OpsIn(filt)
  IN IF ops = <<>> THEN NoEntry("no operator", "", "")
     ELSE
       LET op == ops[Len(ops)]
           filt_split == Split(filt, op)
           key == Strip(filt_split[1])
       IN IF coll \notin DOMAIN get_filtMap THEN NoEntry("KeyError", key, op)
          ELSE IF key \notin DOMAIN get_filtMap[coll]
          THEN NoEntry("unknown key", key, op)
          ELSE
            LET val == Remove(Remove(Strip(filt_split[2]), "\""), "'")
            IN IF val = "" THEN NoEntry("no value", key, op)
               ELSE [kind |-> "filter", key |-> key, op |-> op,
                     field |-> get_filtMap[coll][key],
                     vals |-> Split(val, "|")]

\* line 232: "out_filters[field] = (op, val.split('|'))"
SetItem(out, field, value) ==
  [f \in DOMAIN out \cup {field} |-> IF f = field THEN value ELSE out[f]]

\* ParseLoop with an entry that is left out ending the loop
RECURSIVE ParseLoop_Break(_, _, _, _)
ParseLoop_Break(entries, coll, i, out) ==
  IF i > Len(entries) THEN [state |-> "returned", error |-> "", value |-> out]
  ELSE LET e == ParseEntry(entries[i], coll)
       IN CASE e.kind = "KeyError" ->
                 [state |-> "raised", error |-> "KeyError", value |-> EmptyMap]
            [] e.kind = "filter" ->
                 ParseLoop_Break(entries, coll, i + 1,
                                 SetItem(out, e.field, <<e.op, e.vals>>))
            [] OTHER -> [state |-> "returned", error |-> "", value |-> out]

\* lines 190-234: the loop over the entries from entry i on, out_filters
\* being out
RECURSIVE ParseLoop(_, _, _, _)
ParseLoop(entries, coll, i, out) ==
  IF i > Len(entries) THEN [state |-> "returned", error |-> "", value |-> out]
  ELSE LET e == ParseEntry(entries[i], coll)
       IN CASE e.kind = "KeyError" ->
                 [state |-> "raised", error |-> "KeyError", value |-> EmptyMap]
            [] e.kind = "filter" ->
                 ParseLoop(entries, coll, i + 1,
                           SetItem(out, e.field, <<e.op, e.vals>>))
            [] OTHER -> ParseLoop(entries, coll, i + 1, out)

\* _parse_filters(filters, coll_id): coll_id None stands for self.coll_id
parse_filters(entries, coll) ==
  ParseLoop(entries, IF coll = "None" THEN self_coll_id ELSE coll, 1, EmptyMap)

(***************************************************************************)
(* _parse_dates and validate_dates.                                        *)
(***************************************************************************)
\* line 147
time_words == <<"hour", "day", "week", "month", "year">>

\* Python's False
PyFalse == [t |-> "bool", b |-> FALSE]

\* lines 162-170: one side of a range: the time is kept when the side has a
\* T, else midnight is added
NormalizeSide(side) ==
  IF Contains(LowerStr(side), "t") THEN Replace(LowerStr(side), "t", "_")
  ELSE side \o "_000000"

\* _parse_dates(in_dates); parsed is what dateparser.parse makes of the text
\* ("None" when it cannot read it) and now is the current time
parse_dates(text, parsed, now) ==
  IF text = "" THEN [state |-> "returned", error |-> "", value |-> ""]
  ELSE IF \E w \in 1..Len(time_words) : Contains(text, time_words[w])
  THEN IF parsed = "None"
       THEN [state |-> "raised", error |-> "AttributeError", value |-> <<>>]
       ELSE [state |-> "returned", error |-> "",
             value |-> <<[start |-> parsed, end |-> now]>>]
  ELSE
    LET date_ranges == Split(text, ",")
        sides(i) == Split(date_ranges[i], "-")
        last == sides(Len(date_ranges))
    IN IF \E i \in 1..Len(date_ranges) : Len(sides(i)) # 2
       THEN [state |-> "raised", error |-> "ValueError", value |-> <<>>]
       ELSE [state |-> "returned", error |-> "",
             value |-> <<[start |-> NormalizeSide(last[1]),
                          end |-> NormalizeSide(last[2])]>>]

\* validate_dates(dates): the text when _parse_dates returns, False when it
\* raises
validate_dates(text, parsed, now) ==
  [state |-> "returned", error |-> "",
   value |-> IF parse_dates(text, parsed, now).state = "raised" THEN PyFalse
             ELSE PyStr(text)]

(***************************************************************************)
(* Calls of the parsing methods on their own.                              *)
(***************************************************************************)
\* the collections of the calls: two of the field map and one that the
\* field map does not have
ParseColls == {"NAPL", "Radarsat1RawProducts", "ALOS-2"}

\* the filter keys and the rest of an entry (operator and value) that the
\* filter entries are made of
FilterKeys == {"SCALE", "Roll", "ARCHIVE_FACILITY", "RECEPTION FACILITY"}

FilterTails ==
  {"<=5", ">=5", "=''", " like A|B", " CONTAINED BY A WITHIN B", ""}

Entries == {k \o t : k \in FilterKeys, t \in FilterTails}

\* the lists of at most MaxFilters entries
EntryLists == UNION {[1..n -> Entries] : n \in 0..MaxFilters}

\* a key as written in the field map, in upper case and in lower case
Spellings(k) == {k, Upper(k), LowerStr(k)}

\* for a collection of the field map, the one-entry lists "<key>=5" for
\* every spelling of every key of the collection
KeyLists(coll) ==
  {<<sp \o "=5">> : sp \in UNION {Spellings(k) : k \in DOMAIN get_filtMap[coll]}}

\* the sides and separators the ranges of a date text are made of
DateSides == {"20200501", "20210105T054540", ""}
DateSeps == {"-", ""}
DateRanges == {a \o sep \o b : a \in DateSides, sep \in DateSeps, b \in DateSides}

\* ",".join(ranges)
RECURSIVE Join(_)
Join(ranges) ==
  IF Len(ranges) = 1 THEN ranges[1]
  ELSE ranges[1] \o "," \o Join(Tail(ranges))

\* date texts: at most MaxRanges ranges, or a time interval
DateTexts ==
  {Join(rs) : rs \in UNION {[1..n -> DateRanges] : n \in 1..MaxRanges}}
    \cup {"24 hours", "3 weeks"}

\* what dateparser.parse returns and the current time
ParsedTimes == {"None", "20261031_120000"}
Now == "20261101_120000"

(***************************************************************************)
(* sort_fields: the order of the columns of the results CSV.               *)
(***************************************************************************)
MaxFields == 3

\* the members of a list
Members(lst) == {lst[i] : i \in 1..Len(lst)}

\* lines 648-651: field_order before the loop
field_order(in_fields) ==
  <<"recordId", "collectionId">>
    \o (IF "orderId" \in Members(in_fields) THEN <<"orderId">> ELSE <<>>)
    \o (IF "itemId" \in Members(in_fields) THEN <<"itemId">> ELSE <<>>)

\* lines 655-657: out_fields is the list field_order itself (line 653), so
\* the test of line 656 sees the fields appended so far
RECURSIVE SortLoop_NoTest(_, _, _)
SortLoop_NoTest(in_fields, i, out_fields) ==
  IF i > Len(in_fields) THEN out_fields
  ELSE SortLoop_NoTest(in_fields, i + 1, Append(out_fields, in_fields[i]))

RECURSIVE SortLoop(_, _, _)
SortLoop(in_fields, i, out_fields) ==
  IF i > Len(in_fields) THEN out_fields
  ELSE SortLoop(in_fields, i + 1,
                IF in_fields[i] \in Members(out_fields) THEN out_fields
                ELSE Append(out_fields, in_fields[i]))

\* lines 637-659
sort_fields(in_fields) == SortLoop(in_fields, 1, field_order(in_fields))

\* the field names of the records and the lists handed to sort_fields
FieldNames == {"recordId", "collectionId", "orderId", "itemId", "title", "date"}
FieldLists == UNION {[1..n -> FieldNames] : n \in 0..MaxFields}

(***************************************************************************)
(* Prompter.ask_priority: the priority level of the orders.                *)
(***************************************************************************)
priorities == {"low", "medium", "high", "urgent"}

\* lines 2187-2192: without a command-line value the operator is asked,
\* unless the run is silent
PriorityGiven(arg, is_silent, entered) ==
  IF arg = PyNone /\ ~is_silent THEN PyStr(entered) ELSE arg

\* lines 2194-2199: the local priority at the end of the body
PriorityLevel(given) ==
  IF given = PyNone \/ given = PyStr("") THEN PyStr("Medium")
  ELSE IF LowerStr(given.s) \notin priorities THEN PyStr("Medium")
  ELSE given

\* lines 2174-2199: the body ends at line 2199 without a return statement,
\* so the call evaluates to None whatever the local priority is
ask_priority(arg, is_silent, entered) ==
  LET level == PriorityLevel(PriorityGiven(arg, is_silent, entered))
  IN PyNone

\* the values of --priority and the entries of the operator
PriorityArgs == {PyNone} \cup {PyStr(t) : t \in {"", "low", "High", "URGENT", "asap"}}
PriorityEntries == {"", "medium", "Low", "soon"}

(***************************************************************************)
(* Prompter.prompt: the credentials of the session.                        *)
(***************************************************************************)

\* lines 2404-2439: the questions put to the operator before the session
\* is created: a credential is asked for when it is neither on the command
\* line nor in config.ini; self.eod.silent only changes the wording of the
\* last question
prompt_credentials(user_arg, user_cfg, pass_arg, pass_cfg, is_silent) ==
  LET new_user == ~user_arg /\ ~user_cfg
      new_pass == ~pass_arg /\ ~pass_cfg
      suggestion == IF is_silent THEN " (silent mode)" ELSE ""
  IN (IF new_user THEN <<"username">> ELSE <<>>)
       \o (IF new_pass THEN <<"password">> ELSE <<>>)
       \o (IF new_user \/ new_pass
           THEN <<"store the credentials" \o suggestion>> ELSE <<>>)

(***************************************************************************)
(* query_entries: the filters handed to the search of each collection.     *)
(***************************************************************************)
\* a Python dictionary
PyDict(d) == [t |-> "dict", d |-> d]

\* "if filters": None and the empty dictionary are false
HasFilters(filt) == filt.t = "dict" /\ DOMAIN filt.d # {}

\* lines 998-1007: the local filters is looked up by the collection id and
\* replaced by the translation of the entries found, or by None
LoopFilters(filt, coll_id) ==
  IF HasFilters(filt) /\ coll_id \in DOMAIN filt.d
  THEN PyDict(parse_filters(filt.d[coll_id], coll_id).value)
  ELSE PyNone

\* lines 1009-1011: the search of NAPL is filtered by price only
SearchFilters(filt, coll_id) ==
  IF coll_id = "NAPL" THEN PyDict("Price" :> <<"=", <<"True">>>>) ELSE filt

\* lines 992-1021: the search calls of the collections from number i on,
\* filt being the local filters left by the collection before
RECURSIVE QueryLoop(_, _, _)
QueryLoop(colls, i, filt) ==
  IF i > Len(colls) THEN <<>>
  ELSE LET coll_id == get_fullCollId(colls[i])
           passed == SearchFilters(LoopFilters(filt, coll_id), coll_id)
       IN <<[coll |-> coll_id, filters |-> passed]>>
            \o QueryLoop(colls, i + 1, passed)

\* lines 964-1026: the collection and the filters of every search call
query_entries(colls, filt) == QueryLoop(colls, 1, filt)

\* lists of different collections
QueryColls ==
  {cs \in UNION {[1..n -> Members(CollOrder)] : n \in 1..MaxColls} :
     \A i, j \in 1..Len(cs) : i # j => cs[i] # cs[j]}

\* the filter entries an operator gives for a collection
UserEntries ==
  "RCMImageProducts" :> <<"BEAM_MNEMONIC=16M11|16M13">>
  @@ "NAPL" :> <<"SCALE>=5">>
  @@ "Radarsat1" :> <<"ORBIT_DIRECTION=Ascending", "INCIDENCE_ANGLE<45">>

\* params['filters']: None, or the entries of some of the collections
UserFilters ==
  {PyNone} \cup {PyDict([c \in cs |-> UserEntries[c]]) :
                   cs \in SUBSET Members(CollOrder)}

(***************************************************************************)
(* validate_filters and ask_filter: the filter text of the operator.       *)
(***************************************************************************)
\* lines 1206-1213: an operator occurs somewhere in the whole text
HasOperator(text) ==
  \E i \in 1..Len(operators) : Contains(Upper(text), operators[i])

\* line 1220: a key of the field map occurs somewhere in the entry
HasKey(f, coll_filts) == \E x \in DOMAIN coll_filts : Contains(Upper(f), x)

\* lines 1192-1227: False, or the text itself when it is accepted
validate_filters(text, coll_id) ==
  IF ~HasOperator(text)
  THEN [state |-> "returned", error |-> "", value |-> PyFalse]
  ELSE IF coll_id \notin DOMAIN get_filtMap
  THEN [state |-> "raised", error |-> "KeyError", value |-> PyFalse]
  ELSE LET filts == Split(text, ",")
       IN IF \E i \in 1..Len(filts) : ~HasKey(filts[i], get_filtMap[coll_id])
          THEN [state |-> "returned", error |-> "", value |-> PyFalse]
          ELSE [state |-> "returned", error |-> "", value |-> PyStr(text)]

\* lines 2003-2008: the entries of an accepted text, without the collection
\* that may be written before a key
ask_filter_items(text) ==
  LET filts == Split(text, ",")
  IN [i \in 1..Len(filts) |->
        IF Contains(filts[i], ".") THEN Split(filts[i], ".")[2] ELSE filts[i]]

\* the entries an operator types and the texts made of them
TypedEntries == {"SCALE>=5", "roll=A|B", "ROLL", "MYSCALE=5", "SCALE="}
FilterTexts ==
  {Join(es) : es \in UNION {[1..n -> TypedEntries] : n \in 1..MaxFilters}}

\* no flow is run
NoFlow ==
  /\ process = "none"
  /\ input_ok = TRUE
  /\ maximum = PyNone
  /\ csv_rows = <<>>
  /\ pc = "parsing"
  /\ fn_str = FALSE
  /\ max_images = PyNone
  /\ max_items = PyNone
  /\ coll_i = 1
  /\ all_res = <<>>
  /\ built = FALSE
  /\ query_imgs = <<>>
  /\ cur_res = FALSE
  /\ json_res = <<>>
  /\ idx = 0
  /\ order_res = <<>>
  /\ orders = <<>>
  /\ answer = <<>>
  /\ calls = <<>>
  /\ exit_status = -1
  /\ exit_by = "running"
  /\ chunk_idx = 0
  /\ row_i = 1
  /\ seq_ids = <<>>
  /\ res = Unbound

ParseInit ==
  /\ NoFlow
  /\ fn \in {"_parse_filters", "_parse_dates", "validate_dates", "sort_fields",
            "ask_priority", "prompt", "query_entries", "validate_filters"}
  /\ collections \in (IF fn = "query_entries" THEN QueryColls ELSE {<<>>})
  /\ silent \in (IF fn \in {"ask_priority", "prompt"} THEN BOOLEAN ELSE {FALSE})
  /\ self_coll_id \in (IF fn = "_parse_filters"
                       THEN ParseColls \cup DOMAIN get_filtMap
                       ELSE IF fn = "validate_filters" THEN ParseColls
                       ELSE {"None"})
  /\ filters \in (IF fn = "query_entries" THEN UserFilters
                  ELSE IF fn # "_parse_filters" THEN {<<>>}
                  ELSE (IF self_coll_id \in ParseColls THEN EntryLists ELSE {})
                         \cup (IF self_coll_id \in DOMAIN get_filtMap
                               THEN KeyLists(self_coll_id) ELSE {}))
  /\ in_dates \in (IF fn \in {"_parse_dates", "validate_dates"}
                   THEN DateTexts ELSE {""})
  /\ filt_items \in (IF fn = "validate_filters" THEN FilterTexts ELSE {""})
  /\ fields \in (IF fn = "sort_fields" THEN FieldLists ELSE {<<>>})
  /\ priority \in (IF fn = "ask_priority" THEN PriorityArgs ELSE {PyNone})
  /\ in_val \in (IF fn = "ask_priority" THEN PriorityEntries ELSE {""})
  /\ result = NoCall

\* the variables of the flows
flow == <<pc, fn_str, max_images, max_items, coll_i, all_res, built,
          query_imgs, cur_res, json_res, idx, order_res, orders, answer,
          calls, exit_status, exit_by, chunk_idx, row_i, seq_ids,
          res>>

\* the input of the call of a parsing method
parse_in == <<filt_items, in_val, priority, fields, fn, self_coll_id, filters, in_dates>>

parse_filters_call ==
  /\ fn = "_parse_filters"
  /\ result.state = "pending"
  /\ result' = parse_filters(filters, "None")
  /\ UNCHANGED <<inputs, flow, parse_in>>

parse_dates_call ==
  /\ fn = "_parse_dates"
  /\ result.state = "pending"
  /\ \E parsed \in ParsedTimes : result' = parse_dates(in_dates, parsed, Now)
  /\ UNCHANGED <<inputs, flow, parse_in>>

validate_dates_call ==
  /\ fn = "validate_dates"
  /\ result.state = "pending"
  /\ \E parsed \in ParsedTimes : result' = validate_dates(in_dates, parsed, Now)
  /\ UNCHANGED <<inputs, flow, parse_in>>

sort_fields_call ==
  /\ fn = "sort_fields"
  /\ result.state = "pending"
  /\ result' = [state |-> "returned", error |-> "", value |-> sort_fields(fields)]
  /\ UNCHANGED <<inputs, flow, parse_in>>

\* lines 2515-2516: params['priority'] is what ask_priority returns
ask_priority_call ==
  /\ fn = "ask_priority"
  /\ result.state = "pending"
  /\ result' = [state |-> "returned", error |-> "",
                value |-> ask_priority(priority, silent, in_val)]
  /\ UNCHANGED <<inputs, flow, parse_in>>

\* lines 2377-2439: parse_args, set_silence and the credentials
prompt_credentials_call ==
  /\ fn = "prompt"
  /\ result.state = "pending"
  /\ \E user_arg, user_cfg, pass_arg, pass_cfg \in BOOLEAN :
       result' = [state |-> "returned", error |-> "",
                  value |-> prompt_credentials(user_arg, user_cfg, pass_arg,
                                               pass_cfg, silent)]
  /\ UNCHANGED <<inputs, flow, parse_in>>

query_entries_call ==
  /\ fn = "query_entries"
  /\ result.state = "pending"
  /\ result' = [state |-> "returned", error |-> "",
                value |-> query_entries(collections, filters)]
  /\ UNCHANGED <<inputs, flow, parse_in>>

\* lines 1997-1998: the text typed for the collection is validated
validate_filters_call ==
  /\ fn = "validate_filters"
  /\ result.state = "pending"
  /\ result' = validate_filters(filt_items, self_coll_id)
  /\ UNCHANGED <<inputs, flow, parse_in>>

ParseNext ==
  \/ parse_filters_call
  \/ parse_dates_call
  \/ validate_dates_call
  \/ sort_fields_call
  \/ ask_priority_call
  \/ prompt_credentials_call
  \/ query_entries_call
  \/ validate_filters_call

ParseSpec == ParseInit /\ [][ParseNext]_vars

(***************************************************************************)
(* Properties of the flows.                                                *)
(***************************************************************************)
IsOrder(c) == c.op = "order"
IsIngest(c) == c.op = "ingest"
IsSearch(c) == c.op = "search"
IsLookup(c) == c.op = "getOrders"
IsDownload(c) == c.op = "download"
IsPrompt(c) == c.op = "prompt"
IsExport(c) == c.op = "export"

\* the order calls of the run so far
OrderCalls == SelectSeq(calls, IsOrder)

\* the records of a sequence of calls, concatenated in call order
RECURSIVE ConcatRecs(_)
ConcatRecs(cs) ==
  IF cs = <<>> THEN <<>> ELSE cs[1].recs \o ConcatRecs(Tail(cs))

Made(Is(_)) == \E i \in 1..Len(calls) : Is(calls[i])

\* the run has left the ordering stage of its flow without being cut short
OrderingOver == pc \in {"ordered", "download", "report"} \/ exit_by = "complete"

\* the items-per-order cap written in the maximum text, 0 when there is none
CapOf(text) ==
  LET items == parse_max(text)[2]
  IN IF items.t = "int" THEN items.n ELSE 0

\* the last thing the run did was to write the images to the results CSV
ExportedLast ==
  /\ calls # <<>>
  /\ calls[Len(calls)].op = "export"
  /\ calls[Len(calls)].recs = query_imgs

\* C1: in the full flow with an items-per-order cap k >= 1 the chunks of the
\* order calls, concatenated in call order, are a prefix of the record
\* sequence and the whole of it once the ordering stage is over; every chunk
\* but the last has exactly k records and the last has between 1 and k.
C1_BatchingLaw ==
  (process = "full" /\ CapOf(maximum) >= 1) =>
    LET k == CapOf(maximum)
        oc == OrderCalls
    IN /\ Len(ConcatRecs(oc)) <= Len(json_res)
       /\ ConcatRecs(oc) = SubSeq(json_res, 1, Len(ConcatRecs(oc)))
       /\ \A i \in 1..Len(oc) :
            /\ Len(oc[i].recs) >= 1
            /\ Len(oc[i].recs) <= k
            /\ (i < Len(oc) => Len(oc[i].recs) = k)
       /\ (OrderingOver => ConcatRecs(oc) = json_res)

\* C1 witness: 5 records with k = 2 were ordered in calls of 2, 2 and 1.
C1_Witness ==
  /\ process = "full"
  /\ CapOf(maximum) = 2
  /\ Len(json_res) = 5
  /\ OrderingOver
  /\ [i \in 1..Len(OrderCalls) |-> Len(OrderCalls[i].recs)] = <<2, 2, 1>>

\* C2 (as claimed): in every flow, with an items-per-order cap k >= 1 no
\* order call carries more than k records.
C2_Claim ==
  CapOf(maximum) >= 1 =>
    \A i \in 1..Len(calls) :
      calls[i].op = "order" => Len(calls[i].recs) <= CapOf(maximum)

\* C3 (as claimed): when orders were submitted and the order set holds no
\* item after all of them were reconciled, the run does not go on to the
\* download stage: it exports the results and exits with a non-zero status
\* (stated for runs that ordered at least one record).
C3_Claim ==
  (Made(IsOrder) /\ json_res # <<>> /\ orders = <<>>) =>
    /\ pc \notin {"download", "report"}
    /\ ~Made(IsDownload)
    /\ (pc = "exited" /\ exit_by \in {"sys.exit", "complete"}) =>
         (exit_status # 0 /\ ExportedLast)

\* C4: in the full, download_aoi and search_only flows, once query_entries
\* returned with no record at all, no order, getOrdersByRecords or download
\* call is ever made and the process exits with a non-zero status.
C4_NoResultsFatal ==
  (process \in AoiFlows /\ built /\ all_res = <<>>) =>
    /\ pc \in {"queried", "exited"}
    /\ ~Made(IsOrder)
    /\ ~Made(IsLookup)
    /\ ~Made(IsDownload)
    /\ ~Made(IsExport)
    /\ (pc = "exited" => exit_status # 0)

\* C4 witness: a search over two collections returned nothing and the flow
\* ended the process itself.
C4_Witness ==
  /\ process \in AoiFlows
  /\ Len(collections) = 2
  /\ Len(SelectSeq(calls, IsSearch)) = 2
  /\ built
  /\ all_res = <<>>
  /\ pc = "exited"
  /\ exit_by = "sys.exit"
  /\ exit_status = 1

\* C5 (as claimed): in the full flow with an items-per-order cap, a run that
\* started ordering and was not interrupted by the operator has submitted
\* every batch of the record sequence when it ends, also when the order
\* call of one batch failed.
C5_Claim ==
  (process = "full" /\ CapOf(maximum) >= 1 /\ Made(IsOrder)
     /\ pc = "exited" /\ exit_by # "interrupt") =>
    ConcatRecs(OrderCalls) = json_res

\* the operator's answer is a yes
Affirmative(ans) == Lower(ans) \in {<<"y">>, <<"y", "e", "s">>}

\* the operator's answer is a no
Negative(ans) == Lower(ans) \in {<<"n">>, <<"n", "o">>}

\* C6 (as claimed): in download_only and download_aoi, when the lookup found
\* no order and silent mode is on or the operator answered no, the process
\* ends with status 0 after writing the current images to the results CSV,
\* without an order or download call (stated for runs with at least one
\* image).
C6_Claim ==
  (process \in {"download_only", "download_aoi"} /\ Made(IsLookup)
     /\ query_imgs # <<>> /\ orders = <<>>
     /\ (silent \/ (Made(IsPrompt) /\ Negative(answer)))
     /\ pc = "exited" /\ exit_by = "sys.exit") =>
    /\ exit_status = 0
    /\ ExportedLast
    /\ ~Made(IsOrder)
    /\ ~Made(IsDownload)

C8_Claim ==
  (exit_by = "interrupt" /\ built /\ query_imgs # <<>>) => (exit_status # 0 /\ ExportedLast)

\* the call that a step adds to the calls of the run is an op call
Adds(op) == Len(calls') > Len(calls) /\ calls'[Len(calls) + 1].op = op

\* C9: in the full flow a search call is made only before any order, there
\* is at most one search per collection, an order call is made only when the
\* responses of all earlier order calls are ingested, and download is called
\* only once, after the search of every collection and after every batch of
\* the record sequence was ordered and ingested; nothing is searched,
\* ordered or ingested after it.
C9_Sequential ==
  [][process = "full" =>
       /\ Adds("search") =>
            /\ ~Made(IsOrder) /\ ~Made(IsIngest) /\ ~Made(IsDownload)
            /\ Len(SelectSeq(calls, IsSearch)) < Len(collections)
       /\ Adds("order") =>
            /\ Len(SelectSeq(calls, IsIngest)) = Len(OrderCalls)
            /\ Len(SelectSeq(calls, IsSearch)) = Len(collections)
            /\ ~Made(IsDownload)
       /\ Adds("ingest") =>
            /\ Len(SelectSeq(calls, IsIngest)) + 1 = Len(OrderCalls)
            /\ ~Made(IsDownload)
       /\ Adds("download") =>
            /\ ~Made(IsDownload)
            /\ Len(SelectSeq(calls, IsSearch)) = Len(collections)
            /\ Len(SelectSeq(calls, IsIngest)) = Len(OrderCalls)
            /\ ConcatRecs(OrderCalls) = json_res]_vars

\* C9 witness: a full run over two collections with several order batches
\* has downloaded and completed.
C9_Witness ==
  /\ process = "full"
  /\ Len(SelectSeq(calls, IsSearch)) = 2
  /\ Len(OrderCalls) >= 2
  /\ Made(IsDownload)
  /\ exit_by = "complete"

\* no result cap is written in the maximum text
NoCapGiven(text) ==
  \/ text.t = "none"
  \/ text.s = <<>>
  \/ text.s[1] = ":"

\* C10: in the full flow the operator is asked to confirm at most once, only
\* when no result cap was given and silent mode is off, and then before any
\* order; a run that reaches the ordering stage has asked exactly in that
\* case. An answer of no exports the results and ends the process with
\* status 0 without an order or download call.
C10_ConfirmOrdering ==
  process = "full" =>
    /\ Len(SelectSeq(calls, IsPrompt)) <= 1
    /\ Made(IsPrompt) => (NoCapGiven(maximum) /\ ~silent)
    /\ (pc \in {"order_all", "order_loop"} \/ Made(IsOrder)) =>
         (Made(IsPrompt) <=> (NoCapGiven(maximum) /\ ~silent))
    /\ \A i \in 1..Len(calls) :
         calls[i].op = "prompt" => \A j \in 1..(i - 1) : calls[j].op = "search"
    /\ (Made(IsPrompt) /\ Negative(answer)) =>
         /\ pc = "exited"
         /\ exit_status = 0
         /\ ExportedLast
         /\ ~Made(IsOrder)
         /\ ~Made(IsDownload)

\* C10 witness: the operator was asked, answered no and the process ended
\* with status 0.
C10_Witness ==
  /\ process = "full"
  /\ Made(IsPrompt)
  /\ Negative(answer)
  /\ pc = "exited"
  /\ exit_status = 0

\* the elements of a record sequence that belong to collection c
OfColl(recs, c) == SelectSeq(recs, LAMBDA r : r.coll = c)

\* the run has trimmed the images of the full flow and taken json_res
Trimmed ==
  pc \in {"order_all", "ingest_all", "order_loop", "ingest_chunk", "ordered",
          "download", "report"} \/ Made(IsOrder)

\* the first n records of every collection of colls from index i on, the
\* collections in the order of the query
RECURSIVE FirstOfEach(_, _, _, _)
FirstOfEach(recs, n, colls, i) ==
  IF i > Len(colls) THEN <<>>
  ELSE Take(OfColl(recs, get_fullCollId(colls[i])), n)
         \o FirstOfEach(recs, n, colls, i + 1)

C12_SearchOnlyStops ==
  process = "search_only" =>
    /\ pc \in {"start", "query", "queried", "exited"}
    /\ ~Made(IsOrder)
    /\ ~Made(IsLookup)
    /\ ~Made(IsDownload)
    /\ orders = <<>>
    /\ (built /\ all_res # <<>> /\ pc = "exited" /\ exit_by # "interrupt") =>
         /\ exit_by = "sys.exit"
         /\ exit_status = 0
         /\ ExportedLast
         /\ get_raw(query_imgs) = all_res

\* C12 witness: a search_only run over two collections found records,
\* exported them and ended with status 0.
C12_Witness ==
  /\ process = "search_only"
  /\ Len(SelectSeq(calls, IsSearch)) = 2
  /\ Len(all_res) >= 2
  /\ ExportedLast
  /\ pc = "exited"
  /\ exit_status = 0

(***************************************************************************)
(* Properties of the parsing methods.                                      *)
(***************************************************************************)
\* _parse_filters was called and has ended
FiltersParsed == fn = "_parse_filters" /\ result.state # "pending"

\* the positions of the entries that the loop does not leave out
ValidEntries ==
  {i \in 1..Len(filters) : ParseEntry(filters[i], self_coll_id).kind = "filter"}

\* C13 (as claimed): when _parse_filters returns, the number of fields of
\* the mapping equals the number of entries that were not left out, also
\* when two entries name the same key or keys of the same field.
C13_Claim ==
  (FiltersParsed /\ result.state = "returned") =>
    Cardinality(DOMAIN result.value) = Cardinality(ValidEntries)

\* the operators of the vocabulary that occur in the upper-cased entry
Occurring(entry) ==
  {operators[k] : k \in {j \in 1..Len(operators) :
                           Contains(Upper(entry), operators[j])}}

\* C14 (as claimed): for every entry with an operator, the operator that
\* _parse_filters takes for it is the longest operator of the vocabulary
\* that occurs in the entry, and the key is the text before its first
\* occurrence.
C14_Claim ==
  FiltersParsed =>
    \A i \in 1..Len(filters) :
      LET e == ParseEntry(filters[i], self_coll_id)
          text == Upper(filters[i])
      IN Occurring(filters[i]) # {} =>
           /\ e.op \in Occurring(filters[i])
           /\ \A o \in Occurring(filters[i]) : Len(o) <= Len(e.op)
           /\ e.key = Strip(SubSeq(text, 1, IndexOf(text, e.op) - 1))

\* C15: for a collection of the field map _parse_filters never raises; an
\* entry with an unknown key or without a value adds nothing: the fields of
\* the mapping are those of the other entries, and each of these entries,
\* before or after an entry left out, is in the mapping with its operator
\* and values unless a later entry names the same field.
C15_BadEntriesSkipped ==
  (FiltersParsed /\ self_coll_id \in DOMAIN get_filtMap) =>
    LET es == [i \in 1..Len(filters) |-> ParseEntry(filters[i], self_coll_id)]
        valid == {i \in 1..Len(filters) : es[i].kind = "filter"}
    IN /\ result.state = "returned"
       /\ DOMAIN result.value = {es[i].field : i \in valid}
       /\ \A i \in valid :
            (\A j \in valid : j > i => es[j].field # es[i].field)
              => result.value[es[i].field] = <<es[i].op, es[i].vals>>

\* C15 witness: of two entries the first has an unknown key, or the second
\* has no value, and the other one is in the mapping.
C15_Witness ==
  /\ FiltersParsed
  /\ self_coll_id = "NAPL"
  /\ \/ filters = <<"ARCHIVE_FACILITY<=5", "SCALE>=5">>
        /\ result.value = ("Scale" :> <<">=", <<"5">>>>)
     \/ filters = <<"Roll like A|B", "SCALE=''">>
        /\ result.value = ("Roll Number" :> <<" LIKE ", <<"A", "B">>>>)

\* C16 (as claimed): for a collection that the field map does not have,
\* _parse_filters returns an empty mapping.
C16_Claim ==
  (FiltersParsed /\ self_coll_id \notin DOMAIN get_filtMap) =>
    (result.state = "returned" /\ result.value = EmptyMap)

\* C17 (as claimed): for every collection of the field map, every key of
\* the collection and every spelling of the key in upper or lower case, the
\* entry "<key>=5" is translated to the field of the key.
C17_Claim ==
  (FiltersParsed /\ self_coll_id \in DOMAIN get_filtMap) =>
    \A k \in DOMAIN get_filtMap[self_coll_id] :
      \A sp \in Spellings(k) :
        filters = <<sp \o "=5">> =>
          /\ result.state = "returned"
          /\ get_filtMap[self_coll_id][k] \in DOMAIN result.value
          /\ result.value[get_filtMap[self_coll_id][k]] = <<"=", <<"5">>>>

\* C18 (as claimed): every search call for collection NAPL carries the
\* filter Price.
C18_Claim ==
  \A i \in 1..Len(calls) :
    (calls[i].op = "search" /\ calls[i].coll = "NAPL") => "Price" \in calls[i].filt

\* the date text has no word of a time interval
NoTimeWord(text) == \A w \in 1..Len(time_words) : ~Contains(text, time_words[w])

\* the comma-separated ranges of a date text
RangesOf(text) == Split(text, ",")

\* a range with exactly one '-' and a start and an end
ValidRange(rng) ==
  /\ Len(Split(rng, "-")) = 2
  /\ Split(rng, "-")[1] # ""
  /\ Split(rng, "-")[2] # ""

\* a side of a range as the RAPI takes it: date, '_', time
Normalized(side) ==
  IF Contains(side, "T")
  THEN Split(side, "T")[1] \o "_" \o Split(side, "T")[2]
  ELSE side \o "_000000"

\* C19 (as claimed): for a date text of n >= 1 valid ranges without a word
\* of a time interval, _parse_dates returns n DateRanges, the i-th being the
\* i-th range with both sides normalized.
C19_Claim ==
  (fn = "_parse_dates" /\ result.state # "pending" /\ in_dates # ""
     /\ NoTimeWord(in_dates)
     /\ \A i \in 1..Len(RangesOf(in_dates)) : ValidRange(RangesOf(in_dates)[i])) =>
    /\ result.state = "returned"
    /\ Len(result.value) = Len(RangesOf(in_dates))
    /\ \A i \in 1..Len(RangesOf(in_dates)) :
         LET sides == Split(RangesOf(in_dates)[i], "-")
         IN result.value[i] = [start |-> Normalized(sides[1]),
                               end |-> Normalized(sides[2])]

\* C20 (as claimed): validate_dates returns False for every date text,
\* without a word of a time interval, that has a range with no '-' or with
\* an empty start or end.
C20_Claim ==
  (fn = "validate_dates" /\ result.state # "pending" /\ in_dates # ""
     /\ NoTimeWord(in_dates)
     /\ \E i \in 1..Len(RangesOf(in_dates)) :
          LET rng == RangesOf(in_dates)[i]
          IN \/ ~Contains(rng, "-")
             \/ Split(rng, "-")[1] = ""
             \/ Split(rng, "-")[Len(Split(rng, "-"))] = "") =>
    result.value = PyFalse

(***************************************************************************)
(* Claims on the rows of the CSV file (_get_eodmsRes).                     *)
(***************************************************************************)

\* the step made a search by order key that returned
KeySearchReturned ==
  /\ process = "order_csv"
  /\ Adds("search")
  /\ calls'[Len(calls) + 1].filt = {"Order Key"}
  /\ exit_by' = "running"

\* C21: a row identified only by an order key contributes a record only when
\* the search by that key returns a single match; with two or more matches
\* none of the matched records enters the output, and in both cases the run
\* goes on with the next row.
C21_AmbiguousKeySkipped ==
  [][KeySearchReturned =>
       /\ res'.t = "list"
       /\ all_res' = IF Len(res'.recs) = 1 THEN all_res \o res'.recs ELSE all_res
       /\ row_i' = row_i + 1
       /\ pc' = "csv_rows"]_vars

\* C21 witness: the key of the first row matched two records, nothing was
\* retained and the second row of the same collection was read
C21_Witness ==
  /\ process = "order_csv"
  /\ Len(csv_rows) = 2
  /\ csv_rows[1].kind = "key"
  /\ csv_rows[2].kind = "seq"
  /\ csv_rows[1].coll = csv_rows[2].coll
  /\ Len(res.recs) = 2
  /\ seq_ids = <<2>>
  /\ all_res = <<>>

\* the step made a search by sequence id that returned None or no record
SeqSearchEmpty ==
  /\ process = "order_csv"
  /\ Adds("search")
  /\ "Sequence Id" \in calls'[Len(calls) + 1].filt
  /\ res' \in {NoneRes, ListRes(<<>>)}
  /\ exit_by' = "exception" =>
       /\ Len(calls') > Len(calls) + 1
       /\ calls'[Len(calls) + 2].op \in {"TypeError", "NameError"}

\* C22: when the query by sequence id of a chunk returns no record (the
\* empty list, or no result at all) the chunk is skipped and the run goes on
\* with the next chunk or collection, keeping the matches found so far.
C22_Claim ==
  [][SeqSearchEmpty =>
       /\ exit_by' = "running"
       /\ pc' = "csv_rows"
       /\ all_res' = all_res
       /\ <<coll_i', chunk_idx'>> = NextPosition]_vars

(***************************************************************************)
(* Claims on sort_fields.                                                  *)
(***************************************************************************)

\* the fields of a list that are none of the four leading columns
IsOtherField(f) == f \notin {"recordId", "collectionId", "orderId", "itemId"}

\* C23: sort_fields returns recordId and collectionId first, then orderId
\* and itemId exactly when each is in the input, then the remaining input
\* fields in the order of their first appearance; every field is in the
\* result once and no input field is missing.
C23_SortedFields ==
  (fn = "sort_fields" /\ result.state = "returned") =>
    LET out == result.value
        lead == <<"recordId", "collectionId">>
                  \o SelectSeq(<<"orderId", "itemId">>,
                               LAMBDA f : f \in Members(fields))
    IN /\ out = lead \o Dedup(SelectSeq(fields, IsOtherField))
       /\ \A i, j \in 1..Len(out) : i # j => out[i] # out[j]
       /\ Members(fields) \subseteq Members(out)

\* C23 witness: a list with a repeated field and itemId, without orderId
C23_Witness ==
  /\ fn = "sort_fields"
  /\ fields = <<"title", "itemId", "title">>
  /\ result.state = "returned"
  /\ result.value = <<"recordId", "collectionId", "itemId", "title">>

(***************************************************************************)
(* Claims on ask_priority.                                                 *)
(***************************************************************************)

\* the value given on the command line or entered by the operator
GivenPriority ==
  IF priority # PyNone THEN priority
  ELSE IF silent THEN PyNone ELSE PyStr(in_val)

\* C24 (as claimed): ask_priority returns the value given on the command
\* line or entered by the operator when it is one of low, medium, high and
\* urgent in any case, and 'Medium' when it is missing, empty or invalid.
C24_Claim ==
  (fn = "ask_priority" /\ result.state = "returned") =>
    result.value =
      (IF GivenPriority # PyNone /\ LowerStr(GivenPriority.s) \in priorities
       THEN GivenPriority ELSE PyStr("Medium"))

(***************************************************************************)
(* Claims on the questions of prompt().                                    *)
(***************************************************************************)

\* C25 (as claimed): in silent mode no input of the operator is requested
\* from the start of prompt() on: no question is put to the operator.
C25_Claim ==
  (fn = "prompt" /\ silent /\ result.state = "returned") => result.value = <<>>

(***************************************************************************)
(* Claims on the end of the flows.                                         *)
(***************************************************************************)
IsPrintResults(c) == c.op = "_print_results"

\* the run completed after a download that delivered no image
NothingDownloaded ==
  /\ exit_by = "complete"
  /\ Made(IsDownload)
  /\ \A i \in 1..Len(query_imgs) : query_imgs[i].status # AvailableStatus

\* C26 (as claimed): in every flow that reaches the download stage, when the
\* download returns no outcome or only outcomes that are not
\* AVAILABLE_FOR_DOWNLOAD, every image is kept and reported as a failure
\* with its status, the results CSV is exported and the run ends with
\* status 0.
C26_Claim ==
  NothingDownloaded =>
    /\ exit_status = 0
    /\ \E i \in 1..Len(calls) :
         IsPrintResults(calls[i]) /\ calls[i].recs = query_imgs
    /\ calls[Len(calls)] = Call("export", "", {}, query_imgs)
    /\ get_raw(query_imgs) = json_res

(***************************************************************************)
(* Claims on the filters of query_entries.                                 *)
(***************************************************************************)

\* the translation of the entries that the operator gave for a collection
TranslationFor(coll_id) ==
  IF HasFilters(filters) /\ coll_id \in DOMAIN filters.d
  THEN PyDict(parse_filters(filters.d[coll_id], coll_id).value)
  ELSE PyNone

\* C27 (as claimed): in a query over several collections the search call of
\* every collection other than NAPL carries the translation of the filters
\* given for that collection, whatever its place in the list.
C27_Claim ==
  (fn = "query_entries" /\ result.state = "returned") =>
    \A i \in 1..Len(result.value) :
      result.value[i].coll # "NAPL" =>
        result.value[i].filters = TranslationFor(result.value[i].coll)

(***************************************************************************)
(* Claims on validate_filters.                                             *)
(***************************************************************************)

\* C28 (as claimed): every filter text that validate_filters accepts for a
\* collection is translated by _parse_filters with no entry skipped: each of
\* its entries has a vocabulary operator and a key of the field map of the
\* collection.
C28_Claim ==
  (/\ fn = "validate_filters"
   /\ result.state = "returned"
   /\ result.value = PyStr(filt_items)) =>
    LET entries == ask_filter_items(filt_items)
    IN \A i \in 1..Len(entries) :
         ParseEntry(entries[i], self_coll_id).kind = "filter"

(***************************************************************************)
(* Claims on the exit of main.                                             *)
(***************************************************************************)

\* C29 (as claimed): the exit status is 0 only when the flow ran to its end
\* or left through one of its sys.exit(0) calls; a run ended by an
\* exception has exported the results it holds and exits with a status
\* other than 0.
C29_Claim ==
  pc = "exited" =>
    /\ exit_status = 0 => exit_by \in {"complete", "sys.exit"}
    /\ exit_by = "exception" =>
         /\ exit_status # 0
         /\ cur_res => calls[Len(calls)] = Call("export", "", {}, query_imgs)

\* the run was ended by one of the handlers of main
EndedByHandler == exit_by \in {"exception", "interrupt"}

\* C30: whenever cur_res is set, fn_str is set and the ImageList of the flow
\* exists; export_results never fails for a missing file name, and a run
\* ended by a handler of main has exported nothing when cur_res was unset
\* and else has written the images of the flow as its last call.
C30_ExportSafe ==
  /\ cur_res => (fn_str /\ built)
  /\ \A i \in 1..Len(calls) : calls[i].op # "AttributeError"
  /\ EndedByHandler =>
       IF cur_res
       THEN calls # <<>> /\ calls[Len(calls)] = Call("export", "", {}, query_imgs)
       ELSE ~Made(IsExport)

\* C30 witness: a run interrupted after its images were annotated by a
\* download wrote them to the results CSV
C30_Witness ==
  /\ exit_by = "interrupt"
  /\ cur_res
  /\ Made(IsDownload)
  /\ query_imgs # <<>>
  /\ calls[Len(calls)] = Call("export", "", {}, query_imgs)

====
